---- MODULE Spec2Model ----
(***************************************************************************)
(* A model of wheel-inspect's RECORD handling: the RECORD parser           *)
(* (Record.load / Record.parse_row / parse_digest), the manifest tree      *)
(* (RecordPath, Record._insert) and the verification of a Record against   *)
(* a zip-backed wheel (FileProvider.verify_record / verify_file over       *)
(* WheelFile).                                                             *)
(*                                                                         *)
(* Strings are sequences of tokens.  The token "/" is the slash, "." is a  *)
(* dot, "=" the equals sign, "-" and "+" the signs; every other token      *)
(* stands for a fixed non-empty piece of text free of those characters:    *)
(*   "a", "b"      ordinary file-name text                                 *)
(*   "D"           a name of the form {project}-{version}.dist-info        *)
(*   "R","J","P"   the names RECORD, RECORD.jws and RECORD.p7s             *)
(*   "0","1"       decimal digits; "x" text that is not a number           *)
(*   "d1","d1x","d2","e1","bad","sh"   digest texts (see TokLen, TokHex)   *)
(* A path held as `parts` is a sequence of names, each name a string.      *)
(***************************************************************************)
EXTENDS Integers, Sequences, FiniteSets, TLC

(* ----------------------------- bounds ---------------------------------- *)

\* Rows read by one run of Record.load.
MaxRows == 3

\* Rows of the manifests that verification starts from.
MaxManifest == 2

\* Names in the path of a RecordPath reached by probing.
MaxDepth == 3

(* ------------------------- string primitives --------------------------- *)

\* The empty string.
EmptyStr == <<>>

\* Optional values: None is the empty sequence, a present value v is <<v>>.
None == <<>>

Some(v) == <<v>>

\* str.startswith for a one-token prefix.
StartsWithTok(s, t) == Len(s) > 0 /\ s[1] = t

\* str.endswith for a one-token suffix.
EndsWithTok(s, t) == Len(s) > 0 /\ s[Len(s)] = t

\* str.startswith(prefix)
StartsWith(s, pre) == Len(s) >= Len(pre) /\ SubSeq(s, 1, Len(pre)) = pre

\* "//" in path
HasDoubleSlash(s) == \E i \in 1..(Len(s) - 1) : s[i] = "/" /\ s[i + 1] = "/"

\* Position of the first occurrence of token t in s, 0 when there is none.
RECURSIVE FindTok(_, _, _)
FindTok(s, t, i) ==
    IF i > Len(s) THEN 0
    ELSE IF s[i] = t THEN i
    ELSE FindTok(s, t, i + 1)

\* s.split(t): the pieces of s between the occurrences of t (never empty).
RECURSIVE Split(_, _)
Split(s, t) ==
    LET i == FindTok(s, t, 1) IN
    IF i = 0 THEN <<s>>
    ELSE <<SubSeq(s, 1, i - 1)>> \o Split(SubSeq(s, i + 1, Len(s)), t)

\* "/".join(parts)
RECURSIVE Join(_)
Join(parts) ==
    IF Len(parts) = 0 THEN EmptyStr
    ELSE IF Len(parts) = 1 THEN parts[1]
    ELSE parts[1] \o <<"/">> \o Join(Tail(parts))

\* The elements of a sequence.
Range(s) == {s[i] : i \in 1..Len(s)}

\* The names "." and ".."
Dot == <<".">>

DotDot == <<".", ".">>

(* ------------------------------ errors --------------------------------- *)

\* An exception of this package: its class, its path field and the other
\* fields of the class, in declaration order.
Err(kind, path, info) == [kind |-> kind, path |-> path, info |-> info]

NoErr == Err("none", EmptyStr, <<>>)

\* The malformed-manifest classes (subclasses of RecordError).
RecordErrorKinds ==
    {"RecordEntryLengthError", "NullEntryError", "EmptyPathError",
     "NonNormalizedPathError", "AbsolutePathError", "RecordSizeError",
     "EmptySizeError", "RecordAlgDigestError", "UnknownAlgorithmError",
     "WeakAlgorithmError", "RecordDigestError", "EmptyDigestError",
     "RecordConflictError"}

\* The verification classes (subclasses of VerificationError).
VerificationErrorKinds ==
    {"PathTypeMismatchError", "SizeMismatchError", "DigestMismatchError",
     "MissingPathError", "UnrecordedPathError"}

(* ------------------------- digests and sizes --------------------------- *)

\* str.lower() on an algorithm name.
Lower(s) ==
    [i \in 1..Len(s) |->
        CASE s[i] = "SHA256" -> "sha256"
          [] s[i] = "MD5" -> "md5"
          [] OTHER -> s[i]]

\* hashlib.algorithms_guaranteed (the members the model's inputs name).
AlgorithmsGuaranteed == {<<"md5">>, <<"sha1">>, <<"sha256">>, <<"sha512">>}

\* getattr(hashlib, algorithm)().digest_size
DigestSize(algorithm) ==
    CASE algorithm = <<"md5">> -> 16
      [] algorithm = <<"sha1">> -> 20
      [] algorithm = <<"sha256">> -> 32
      [] algorithm = <<"sha512">> -> 64

\* The number of characters a digest token stands for.
TokLen(t) ==
    CASE t \in {"d1", "d1x", "d2", "bad"} -> 43
      [] t = "e1" -> 86
      [] t = "sh" -> 10
      [] OTHER -> 1

\* Whether every character of the token is in [-_0-9A-Za-z].
TokInAlphabet(t) == t \in {"d1", "d1x", "d2", "e1", "sh", "a", "b", "0", "1", "x"}

RECURSIVE StrLen(_)
StrLen(s) == IF Len(s) = 0 THEN 0 ELSE TokLen(s[1]) + StrLen(Tail(s))

\* re.fullmatch(r"[-_0-9A-Za-z]{sz}", digest)
DigestMatches(digest, sz) ==
    /\ \A i \in 1..Len(digest) : TokInAlphabet(digest[i])
    /\ StrLen(digest) = sz

\* The bytes a base64 digest text decodes to, in hex.  "d1" and "d1x" differ
\* only in the unused low bits of their last character and decode alike.
TokHex(t) ==
    CASE t \in {"d1", "d1x"} -> "h1"
      [] t = "d2" -> "h2"
      [] t = "e1" -> "H1"
      [] OTHER -> "h0"

\* urlsafe_b64decode_nopad(data).hex(); the padding added is 4 - (len & 3)
\* characters, which leaves a text of 1 modulo 4 characters undecodable.
B64Decodes(data) == StrLen(data) % 4 # 1

hex_digest(filedata) == [i \in 1..Len(filedata.digest) |-> TokHex(filedata.digest[i])]

\* FileData(size, algorithm, digest)
FileData(size, algorithm, digest) ==
    [size |-> size, algorithm |-> algorithm, digest |-> digest]

\* Equality of two Optional[FileData]: attrs compares size, algorithm and
\* the digest text.
filedata_eq_bytes(a, b) ==
    /\ (a = None) = (b = None)
    /\ a # None /\ b # None =>
        /\ a[1].size = b[1].size
        /\ a[1].algorithm = b[1].algorithm
        /\ hex_digest(a[1]) = hex_digest(b[1])

filedata_eq(a, b) == a = b

\* int(size): <<TRUE, n>> or <<FALSE, 0>> for ValueError.
ParseInt(s) ==
    LET digit(t) == IF t = "0" THEN 0 ELSE 1
        isdigit(t) == t \in {"0", "1"}
    IN  IF Len(s) = 1 /\ isdigit(s[1]) THEN <<TRUE, digit(s[1])>>
        ELSE IF Len(s) = 2 /\ s[1] = "-" /\ isdigit(s[2]) THEN <<TRUE, 0 - digit(s[2])>>
        ELSE IF Len(s) = 2 /\ s[1] = "+" /\ isdigit(s[2]) THEN <<TRUE, digit(s[2])>>
        ELSE <<FALSE, 0>>

(* ----------------------- special paths (util.py) ----------------------- *)

\* path.partition("/"): the text before the first slash and the text after it.
Partition(path) ==
    LET i == FindTok(path, "/", 1) IN
    IF i = 0 THEN <<path, EmptyStr>>
    ELSE <<SubSeq(path, 1, i - 1), SubSeq(path, i + 1, Len(path))>>

\* DIST_INFO_DIR_RGX.fullmatch(name): "D" is {project}-{version}.dist-info, and
\* text put before it extends the project name, which has to start with a
\* letter or digit and may hold dots inside.
is_dist_info_dir(name) ==
    /\ Len(name) >= 1
    /\ name[Len(name)] = "D"
    /\ \A i \in 1..(Len(name) - 1) : name[i] \in {"a", "b", "0", "1", "x", "."}
    /\ name[1] # "."

is_dist_info_path(path, name) ==
    LET pp == Partition(path) IN is_dist_info_dir(pp[1]) /\ pp[2] = name

is_signature_file_jws(path) == is_dist_info_path(path, <<"J">>)

is_signature_file(path) ==
    is_dist_info_path(path, <<"J">>) \/ is_dist_info_path(path, <<"P">>)

is_record_file(path) == is_dist_info_path(path, <<"R">>)

\* Whether a RECORD entry for the path may lack digest and size.
filedata_is_optional(path) == is_record_file(path) \/ EndsWithTok(path, "/")

(* --------------------------- parsing a row ----------------------------- *)

\* What parse_digest and parse_row produce: an exception, or a value.
Raise(e) == [err |-> e, path |-> EmptyStr, data |-> None]

Return(path, data) == [err |-> NoErr, path |-> path, data |-> data]

\* parse_digest(s, path), for s holding an "=": the algorithm and digest, or
\* the exception raised.
parse_digest_digest_first(s, path) ==
    LET i == FindTok(s, "=", 1)
        algorithm == Lower(SubSeq(s, 1, i - 1))
        digest == SubSeq(s, i + 1, Len(s))
    IN  IF algorithm \notin AlgorithmsGuaranteed
        THEN Raise(Err("UnknownAlgorithmError", path, <<algorithm>>))
        ELSE LET sz == (DigestSize(algorithm) * 8 + 5) \div 6 IN
             IF ~DigestMatches(digest, sz)
             THEN Raise(Err("RecordDigestError", path, <<algorithm, digest>>))
             ELSE IF ~B64Decodes(digest)
             THEN Raise(Err("RecordDigestError", path, <<algorithm, digest>>))
             ELSE IF algorithm \in {<<"md5">>, <<"sha1">>}
             THEN Raise(Err("WeakAlgorithmError", path, <<algorithm>>))
             ELSE Return(path, Some(FileData(0, algorithm, digest)))

parse_digest(s, path) ==
    LET i == FindTok(s, "=", 1)
        algorithm == Lower(SubSeq(s, 1, i - 1))
        digest == SubSeq(s, i + 1, Len(s))
    IN  IF algorithm \notin AlgorithmsGuaranteed
        THEN Raise(Err("UnknownAlgorithmError", path, <<algorithm>>))
        ELSE IF algorithm \in {<<"md5">>, <<"sha1">>}
        THEN Raise(Err("WeakAlgorithmError", path, <<algorithm>>))
        ELSE LET sz == (DigestSize(algorithm) * 8 + 5) \div 6 IN
             IF ~DigestMatches(digest, sz)
             THEN Raise(Err("RecordDigestError", path, <<algorithm, digest>>))
             ELSE IF ~B64Decodes(digest)
             THEN Raise(Err("RecordDigestError", path, <<algorithm, digest>>))
             ELSE Return(path, Some(FileData(0, algorithm, digest)))

\* The checks of parse_row on the path field with the test for an absolute
\* path put before the test for a non-normalized one.
check_path_absolute_first(path) ==
    IF path = EmptyStr THEN Err("EmptyPathError", EmptyStr, <<>>)
    ELSE IF StartsWithTok(path, "/")
    THEN Err("AbsolutePathError", path, <<>>)
    ELSE IF \/ HasDoubleSlash(path)
            \/ Dot \in Range(Split(path, "/"))
            \/ DotDot \in Range(Split(path, "/"))
    THEN Err("NonNormalizedPathError", path, <<>>)
    ELSE NoErr

\* The checks of parse_row on the path field: the exception raised, or NoErr.
check_path(path) ==
    IF path = EmptyStr THEN Err("EmptyPathError", EmptyStr, <<>>)
    ELSE IF \/ HasDoubleSlash(path)
            \/ Dot \in Range(Split(path, "/"))
            \/ DotDot \in Range(Split(path, "/"))
    THEN Err("NonNormalizedPathError", path, <<>>)
    ELSE IF StartsWithTok(path, "/")
    THEN Err("AbsolutePathError", path, <<>>)
    ELSE NoErr

\* The algorithm-and-digest field of parse_row: an empty field gives None, a
\* field without "=" cannot be unpacked (ValueError) and is reported as
\* RecordAlgDigestError, any other field goes through parse_digest.
parse_alg_digest(alg_digest, path) ==
    IF alg_digest = EmptyStr THEN Return(path, None)
    ELSE IF FindTok(alg_digest, "=", 1) = 0
    THEN Raise(Err("RecordAlgDigestError", path, <<alg_digest>>))
    ELSE parse_digest(alg_digest, path)

\* The size field of parse_row: the exception raised or NoErr, and the size
\* (None for an empty field).
parse_size(size, path) ==
    LET pi == ParseInt(size) IN
    IF size = EmptyStr THEN [err |-> NoErr, isize |-> None]
    ELSE IF ~pi[1]
    THEN [err |-> Err("RecordSizeError", path, <<size>>), isize |-> None]
    ELSE IF pi[2] < 0
    THEN [err |-> Err("RecordSizeError", path, <<size>>), isize |-> None]
    ELSE [err |-> NoErr, isize |-> Some(pi[2])]

\* The end of parse_row: digest and size go together.
pair_digest_size_hex(path, data, isize) ==
    IF data = None /\ isize # None THEN Raise(Err("EmptyDigestError", path, <<>>))
    ELSE IF data # None /\ isize = None THEN Raise(Err("EmptySizeError", path, <<>>))
    ELSE IF data = None THEN Return(path, None)
    ELSE Return(path, Some(FileData(isize[1], data[1].algorithm, hex_digest(data[1]))))

pair_digest_size(path, data, isize) ==
    IF data = None /\ isize # None THEN Raise(Err("EmptyDigestError", path, <<>>))
    ELSE IF data # None /\ isize = None THEN Raise(Err("EmptySizeError", path, <<>>))
    ELSE IF data = None THEN Return(path, None)
    ELSE Return(path, Some(FileData(isize[1], data[1].algorithm, data[1].digest)))

\* RecordEntryLengthError without the first field of the row.
length_error_pathless(fields) ==
    Err("RecordEntryLengthError", EmptyStr, <<None, Len(fields)>>)

\* RecordEntryLengthError(fields[0] if fields else None, len(fields))
length_error(fields) ==
    Err("RecordEntryLengthError", EmptyStr,
        <<IF Len(fields) > 0 THEN Some(fields[1]) ELSE None, Len(fields)>>)

\* Record.parse_row(fields): (path, data) or the exception raised.
parse_row_size_first(fields) ==
    IF Len(fields) # 3
    THEN Raise(Err("RecordEntryLengthError", EmptyStr,
                   <<IF Len(fields) > 0 THEN Some(fields[1]) ELSE None, Len(fields)>>))
    ELSE
    LET path == fields[1]
        pe == check_path(path)
        pd == parse_alg_digest(fields[2], path)
        ps == parse_size(fields[3], path)
    IN  IF pe.kind # "none" THEN Raise(pe)
        ELSE IF ps.err.kind # "none" THEN Raise(ps.err)
        ELSE IF pd.err.kind # "none" THEN pd
        ELSE pair_digest_size(path, pd.data, ps.isize)

parse_row(fields) ==
    IF Len(fields) # 3
    THEN Raise(length_error(fields))
    ELSE
    LET path == fields[1]
        pe == check_path(path)
        pd == parse_alg_digest(fields[2], path)
        ps == parse_size(fields[3], path)
    IN  IF pe.kind # "none" THEN Raise(pe)
        ELSE IF pd.err.kind # "none" THEN pd
        ELSE IF ps.err.kind # "none" THEN Raise(ps.err)
        ELSE pair_digest_size(path, pd.data, ps.isize)

(* -------------------- the manifest tree (RecordPath) ------------------- *)

\* A node of the tree.  isdir says that _children is a dict (not None);
\* the children of a node are the nodes one name below it.  Every node held
\* in a tree by Record._insert has _exists = True.
Node(isdir, filedata) == [isdir |-> isdir, filedata |-> filedata, exists |-> TRUE]

\* A node made with exists=False and no children.
VirtualNode == [isdir |-> FALSE, filedata |-> None, exists |-> FALSE]

\* RecordPath._mkroot()
RootParts == <<>>

MkRoot == (RootParts :> Node(TRUE, None))

\* `name in self._children`, for the directory at parts `cur`.
HasChild(tree, cur, name) == Append(cur, name) \in DOMAIN tree

\* RecordPath.is_dir / is_file of the node at `parts` of a tree.
NodeIsDir(tree, parts) ==
    parts \in DOMAIN tree /\ tree[parts].exists /\ tree[parts].isdir

NodeIsFile(tree, parts) ==
    parts \in DOMAIN tree /\ tree[parts].exists /\ ~tree[parts].isdir

\* RecordPath.exists() of the path object at `parts`: an object that the
\* tree does not hold was made with exists=False.
NodeExists(tree, parts) == parts \in DOMAIN tree /\ tree[parts].exists

\* RecordPath.iterdir() of the directory at `cur`: the parts of the values
\* of its _children.
iterdir(tree, cur) ==
    {p \in DOMAIN tree : Len(p) = Len(cur) + 1 /\ SubSeq(p, 1, Len(cur)) = cur}

\* What a tree operation produces: the tree afterwards, the node returned
\* and the exception raised, if any.
TreeResult(tree, node, e) == [tree |-> tree, node |-> node, err |-> e]

\* self._mkchild(name, filedata, children, exists=True) on the node at `cur`.
mkchild(tree, cur, name, filedata, isdir) ==
    IF NodeIsFile(tree, cur)
    THEN TreeResult(tree, cur, Err("ValueError", Join(cur), <<>>))
    ELSE IF HasChild(tree, cur, name)
    THEN TreeResult(tree, cur, Err("ValueError", Join(cur), <<>>))
    ELSE TreeResult(tree @@ (Append(cur, name) :> Node(isdir, filedata)),
                    Append(cur, name), NoErr)

\* self._mkchild(name, exists=False) on the path object at `cur`: the new
\* node is put among the children of `cur` only when `cur` has children,
\* which an object made with exists=False has not.
mkchild_virtual(tree, cur, name) ==
    IF NodeIsFile(tree, cur)
    THEN TreeResult(tree, cur, Err("ValueError", Join(cur), <<>>))
    ELSE IF cur \in DOMAIN tree /\ tree[cur].isdir
    THEN IF HasChild(tree, cur, name)
         THEN TreeResult(tree, cur, Err("ValueError", Join(cur), <<>>))
         ELSE TreeResult(tree @@ (Append(cur, name) :> VirtualNode),
                         Append(cur, name), NoErr)
    ELSE TreeResult(tree, Append(cur, name), NoErr)

\* self._mkdir(name) on the node at `cur`.
mkdir(tree, cur, name) ==
    IF ~tree[cur].isdir
    THEN TreeResult(tree, cur, Err("ValueError", Join(cur), <<>>))
    ELSE IF ~HasChild(tree, cur, name)
    THEN mkchild(tree, cur, name, None, TRUE)
    ELSE IF NodeIsDir(tree, Append(cur, name))
    THEN TreeResult(tree, Append(cur, name), NoErr)
    ELSE TreeResult(tree, cur,
                    Err("RecordConflictError", Join(Append(cur, name)), <<>>))

\* The loop `for p in parts: tree = tree._mkdir(p)` of Record._insert.
RECURSIVE MkdirAll(_, _, _)
MkdirAll(tree, cur, parts) ==
    IF Len(parts) = 0 THEN TreeResult(tree, cur, NoErr)
    ELSE LET r == mkdir(tree, cur, parts[1]) IN
         IF r.err.kind # "none" THEN r
         ELSE MkdirAll(r.tree, r.node, Tail(parts))

(* ------------------------------ Record --------------------------------- *)

\* Record.data is a dict: a sequence of (key, value) entries in insertion
\* order.
Entry(key, value) == [key |-> key, value |-> value]

Keys(d) == [i \in 1..Len(d) |-> d[i].key]

HasKey(d, key) == \E i \in 1..Len(d) : d[i].key = key

\* self.data[key]
Lookup(d, key) == d[CHOOSE i \in 1..Len(d) : d[i].key = key].value

\* self.data[key] = value: a new key goes to the end, an old one keeps its place.
SetItem_move_to_end(d, key, value) ==
    Append(SelectSeq(d, LAMBDA e : e.key # key), Entry(key, value))

SetItem(d, key, value) ==
    IF HasKey(d, key)
    THEN [i \in 1..Len(d) |-> IF d[i].key = key THEN Entry(key, value) ELSE d[i]]
    ELSE Append(d, Entry(key, value))

\* Record._insert(path, data) with self.data[path] = data run before the
\* node is looked up.
insert_mapping_first(d, tree, path, value) ==
    LET isdir == EndsWithTok(path, "/")
        spath == IF isdir THEN SubSeq(path, 1, Len(path) - 1) ELSE path
        comps == Split(spath, "/")
        parts == SubSeq(comps, 1, Len(comps) - 1)
        name == comps[Len(comps)]
        w == MkdirAll(tree, RootParts, parts)
    IN  IF w.err.kind # "none"
        THEN [data |-> SetItem(d, path, value), tree |-> w.tree, err |-> w.err]
        ELSE IF HasChild(w.tree, w.node, name)
        THEN IF ~filedata_eq(w.tree[Append(w.node, name)].filedata, value)
             THEN [data |-> SetItem(d, path, value), tree |-> w.tree,
                   err |-> Err("RecordConflictError", path, <<>>)]
             ELSE [data |-> SetItem(d, path, value), tree |-> w.tree, err |-> NoErr]
        ELSE LET c == mkchild(w.tree, w.node, name, value, isdir) IN
             [data |-> SetItem(d, path, value), tree |-> c.tree, err |-> c.err]

\* Record._insert(path, data): the mapping and tree afterwards and the
\* exception raised, if any.
insert(d, tree, path, value) ==
    LET isdir == EndsWithTok(path, "/")
        spath == IF isdir THEN SubSeq(path, 1, Len(path) - 1) ELSE path
        comps == Split(spath, "/")
        parts == SubSeq(comps, 1, Len(comps) - 1)
        name == comps[Len(comps)]
        w == MkdirAll(tree, RootParts, parts)
    IN  IF w.err.kind # "none" THEN [data |-> d, tree |-> w.tree, err |-> w.err]
        ELSE IF HasChild(w.tree, w.node, name)
        THEN IF ~filedata_eq(w.tree[Append(w.node, name)].filedata, value)
             THEN [data |-> d, tree |-> w.tree,
                   err |-> Err("RecordConflictError", path, <<>>)]
             ELSE [data |-> SetItem(d, path, value), tree |-> w.tree, err |-> NoErr]
        ELSE LET c == mkchild(w.tree, w.node, name, value, isdir) IN
             IF c.err.kind # "none" THEN [data |-> d, tree |-> c.tree, err |-> c.err]
             ELSE [data |-> SetItem(d, path, value), tree |-> c.tree, err |-> NoErr]

\* One turn of the loop of Record.load on the row `row`: a row without
\* fields is skipped, any other row is parsed, checked for a null entry and
\* inserted.
load_row_insert_first(d, tree, row) ==
    IF Len(row) = 0 THEN [data |-> d, tree |-> tree, err |-> NoErr]
    ELSE LET r == parse_row(row)
             ins == insert(d, tree, r.path, r.data)
         IN  IF r.err.kind # "none" THEN [data |-> d, tree |-> tree, err |-> r.err]
             ELSE IF ins.err.kind # "none" THEN ins
             ELSE IF r.data = None /\ ~filedata_is_optional(r.path)
             THEN [data |-> ins.data, tree |-> ins.tree,
                   err |-> Err("NullEntryError", r.path, <<>>)]
             ELSE ins

load_row(d, tree, row) ==
    IF Len(row) = 0 THEN [data |-> d, tree |-> tree, err |-> NoErr]
    ELSE LET r == parse_row(row) IN
         IF r.err.kind # "none" THEN [data |-> d, tree |-> tree, err |-> r.err]
         ELSE IF r.data = None /\ ~filedata_is_optional(r.path)
         THEN [data |-> d, tree |-> tree, err |-> Err("NullEntryError", r.path, <<>>)]
         ELSE insert(d, tree, r.path, r.data)

(* ----------------------- joining paths (path.py) ----------------------- *)

\* Path.split_path(path), for a path that does not start with a slash.
split_path(path) == SelectSeq(Split(path, "/"), LAMBDA q : q # EmptyStr)

\* RecordPath.parent: the parent of the root is the root.
parent(parts) == IF Len(parts) = 0 THEN parts ELSE SubSeq(parts, 1, Len(parts) - 1)

\* RecordPath.get_subpath(name) on the path object at `cur`: the tree
\* afterwards and the node reached, or the exception raised.  A child that
\* an existing directory does not hold is a new object with exists=False
\* that no directory holds.
get_subpath_registering(tree, cur, name) ==
    IF NodeIsFile(tree, cur)
    THEN TreeResult(tree, cur, Err("NotDirectoryError", Join(cur), <<>>))
    ELSE IF name = EmptyStr \/ "/" \in Range(name)
    THEN TreeResult(tree, cur, Err("ValueError", name, <<>>))
    ELSE IF name = Dot THEN TreeResult(tree, cur, NoErr)
    ELSE IF name = DotDot THEN TreeResult(tree, parent(cur), NoErr)
    ELSE IF ~NodeExists(tree, cur) THEN mkchild_virtual(tree, cur, name)
    ELSE IF HasChild(tree, cur, name) THEN TreeResult(tree, Append(cur, name), NoErr)
    ELSE mkchild_virtual(tree, cur, name)

get_subpath(tree, cur, name) ==
    IF NodeIsFile(tree, cur)
    THEN TreeResult(tree, cur, Err("NotDirectoryError", Join(cur), <<>>))
    ELSE IF name = EmptyStr \/ "/" \in Range(name)
    THEN TreeResult(tree, cur, Err("ValueError", name, <<>>))
    ELSE IF name = Dot THEN TreeResult(tree, cur, NoErr)
    ELSE IF name = DotDot THEN TreeResult(tree, parent(cur), NoErr)
    ELSE IF ~NodeExists(tree, cur) THEN mkchild_virtual(tree, cur, name)
    ELSE TreeResult(tree, Append(cur, name), NoErr)

\* The loop of Path.__truediv__ over the components of the path.
RECURSIVE JoinSteps(_, _, _)
JoinSteps(tree, cur, names) ==
    IF Len(names) = 0 THEN TreeResult(tree, cur, NoErr)
    ELSE LET r == get_subpath(tree, cur, names[1]) IN
         IF r.err.kind # "none" THEN r
         ELSE JoinSteps(r.tree, r.node, Tail(names))

\* Path.__truediv__: self / path
truediv(tree, cur, path) ==
    IF StartsWithTok(path, "/")
    THEN TreeResult(tree, cur, Err("ValueError", path, <<>>))
    ELSE JoinSteps(tree, cur, split_path(path))

(* -------------------- filetrees (TreePath, classes.py) ----------------- *)

\* RecordPath._prune(names): the directory without the children named, its
\* other descendants copied and adopted.
prune(tree, cur, names) ==
    [p \in {q \in DOMAIN tree :
                ~(Len(q) > Len(cur) /\ SubSeq(q, 1, Len(cur)) = cur
                  /\ q[Len(cur) + 1] \in names)} |-> tree[p]]

\* Record.dist_info_dirname: the names of the top-level directories that
\* find_special_dir takes for a dist-info directory; more or fewer than one
\* is a SpecialDirError.
dist_info_candidates(tree) ==
    {p[1] : p \in {q \in iterdir(tree, RootParts) :
                       NodeIsDir(tree, q) /\ is_dist_info_dir(q[1])}}

\* TreePath._root_depth of the root that FiletreeMapping.__getitem__ makes:
\* len(root.parts).
root_depth(tree_id) == IF tree_id = "dist-info" THEN 1 ELSE 0

\* The tree that the _record_path of a path object with this tree_id lives
\* in: the tree of the Record, pruned of the dist-info directory for the
\* purelib tree ("RECORD" stands for a RecordPath of Record.filetree).
record_tree(tree, tree_id) ==
    IF tree_id = "purelib" THEN prune(tree, RootParts, dist_info_candidates(tree))
    ELSE tree

\* FiletreeMapping._get_root(tree_id): the root, or SpecialDirError from
\* Record.dist_info_dirname.
get_root(tree, tree_id) ==
    IF tree_id = "ALL" THEN TreeResult(tree, RootParts, NoErr)
    ELSE IF Cardinality(dist_info_candidates(tree)) # 1
    THEN TreeResult(tree, RootParts, Err("SpecialDirError", EmptyStr, <<>>))
    ELSE IF tree_id = "purelib" THEN TreeResult(tree, RootParts, NoErr)
    ELSE truediv(tree, RootParts, CHOOSE n \in dist_info_candidates(tree) : TRUE)

\* Path.is_root for a RecordPath, TreePath.is_root for a TreePath.
is_root(parts, tree_id) ==
    IF tree_id = "RECORD" THEN parts = <<>> ELSE Len(parts) = root_depth(tree_id)

\* Path.name
path_name(parts, tree_id) == IF is_root(parts, tree_id) THEN EmptyStr ELSE parts[Len(parts)]

\* TreePath.parent: the root of a filetree is its own parent.
tp_parent_unchecked(parts, tree_id) == parent(parts)

tp_parent(parts, tree_id) == IF is_root(parts, tree_id) THEN parts ELSE parent(parts)

\* TreePath.get_subpath(name) without its test of is_file().
tp_get_subpath_unchecked(tree, cur, tree_id, nm) ==
    IF nm = Dot THEN TreeResult(tree, cur, NoErr)
    ELSE IF nm = DotDot THEN TreeResult(tree, tp_parent(cur, tree_id), NoErr)
    ELSE truediv(tree, cur, nm)

\* TreePath.get_subpath(name)
tp_get_subpath(tree, cur, tree_id, nm) ==
    IF NodeIsFile(tree, cur)
    THEN TreeResult(tree, cur, Err("NotDirectoryError", Join(cur), <<>>))
    ELSE IF nm = Dot THEN TreeResult(tree, cur, NoErr)
    ELSE IF nm = DotDot THEN TreeResult(tree, tp_parent(cur, tree_id), NoErr)
    ELSE truediv(tree, cur, nm)

\* list(path.iterdir()) for a RecordPath or a TreePath, whose generator
\* passes on what RecordPath.iterdir raises: the children, or the exception.
path_iterdir(tree, cur) ==
    IF ~NodeExists(tree, cur)
    THEN [nodes |-> {}, err |-> Err("NoSuchPathError", Join(cur), <<>>)]
    ELSE IF tree[cur].isdir
    THEN [nodes |-> iterdir(tree, cur), err |-> NoErr]
    ELSE [nodes |-> {}, err |-> Err("NotDirectoryError", Join(cur), <<>>)]

\* RecordPath.parent for a path object of either class.
path_parent_of_record(parts, tree_id) == parent(parts)

\* The parent and get_subpath of the class of the path object.
path_parent(parts, tree_id) ==
    IF tree_id = "RECORD" THEN parent(parts) ELSE tp_parent(parts, tree_id)

path_get_subpath(tree, cur, tree_id, nm) ==
    IF tree_id = "RECORD" THEN get_subpath(tree, cur, nm)
    ELSE tp_get_subpath(tree, cur, tree_id, nm)

\* Path.__truediv__ on a path object of either class.
RECURSIVE path_join_steps(_, _, _, _)
path_join_steps(tree, cur, tree_id, names) ==
    IF Len(names) = 0 THEN TreeResult(tree, cur, NoErr)
    ELSE LET r == path_get_subpath(tree, cur, tree_id, names[1]) IN
         IF r.err.kind # "none" THEN r
         ELSE path_join_steps(r.tree, r.node, tree_id, Tail(names))

\* Path.__truediv__ without the test of split_path for a leading slash.
path_truediv_absolute_ok(tree, cur, tree_id, path) ==
    path_join_steps(tree, cur, tree_id, split_path(path))

path_truediv(tree, cur, tree_id, path) ==
    IF StartsWithTok(path, "/")
    THEN TreeResult(tree, cur, Err("ValueError", path, <<>>))
    ELSE path_join_steps(tree, cur, tree_id, split_path(path))

\* TreePath.relative_parts: self.parts[self._root_depth:]
relative_parts(parts, tree_id) == SubSeq(parts, root_depth(tree_id) + 1, Len(parts))

\* name.rfind("."), counted from 1: 0 when the name holds no dot.
rfind_dot(name) ==
    IF "." \in Range(name)
    THEN CHOOSE i \in 1..Len(name) :
            name[i] = "." /\ \A j \in (i + 1)..Len(name) : name[j] # "."
    ELSE 0

\* Path.suffix with the first character of the name taken for a suffix too.
suffix_from_start(name) ==
    IF 0 < rfind_dot(name) /\ rfind_dot(name) < Len(name)
    THEN SubSeq(name, rfind_dot(name), Len(name))
    ELSE EmptyStr

\* Path.suffix, of the name: 0 < i < len(name) - 1 for i counted from 0.
suffix(name) ==
    IF 1 < rfind_dot(name) /\ rfind_dot(name) < Len(name)
    THEN SubSeq(name, rfind_dot(name), Len(name))
    ELSE EmptyStr

\* Path.stem
stem(name) ==
    IF 1 < rfind_dot(name) /\ rfind_dot(name) < Len(name)
    THEN SubSeq(name, 1, rfind_dot(name) - 1)
    ELSE name

\* name.lstrip(".")
RECURSIVE lstrip_dots(_)
lstrip_dots(name) ==
    IF Len(name) > 0 /\ name[1] = "." THEN lstrip_dots(Tail(name)) ELSE name

\* Path.suffixes
suffixes(name) ==
    IF Len(name) > 0 /\ name[Len(name)] = "." THEN <<>>
    ELSE LET pieces == Tail(Split(lstrip_dots(name), "."))
         IN  [i \in 1..Len(pieces) |-> <<".">> \o pieces[i]]

\* Path.with_name(name): self.parent / name
with_name(tree, cur, tree_id, name) ==
    path_truediv(tree, path_parent(cur, tree_id), tree_id, name)

\* Path.with_suffix(suffix)
with_suffix(tree, cur, tree_id, sfx) ==
    IF \/ "/" \in Range(sfx)
       \/ (sfx # EmptyStr /\ sfx[1] # ".")
       \/ sfx = Dot
    THEN TreeResult(tree, cur, Err("ValueError", sfx, <<>>))
    ELSE IF path_name(cur, tree_id) = EmptyStr
    THEN TreeResult(tree, cur, Err("ValueError", EmptyStr, <<>>))
    ELSE IF suffix(path_name(cur, tree_id)) = EmptyStr
    THEN with_name(tree, cur, tree_id, path_name(cur, tree_id) \o sfx)
    ELSE with_name(tree, cur, tree_id,
                   SubSeq(path_name(cur, tree_id), 1,
                          Len(path_name(cur, tree_id))
                              - Len(suffix(path_name(cur, tree_id)))) \o sfx)

(* ------------------------ the archive (WheelFile) ---------------------- *)

\* The zip archive is a function from entry names to the entry's size and
\* content; the name of a directory entry ends in a slash.
ZipEntry(size, content) == [size |-> size, content |-> content]

namelist(zip) == DOMAIN zip

\* ZipInfo.is_dir()
zi_is_dir(name) == EndsWithTok(name, "/")

\* WheelFile.list_files()
list_files(zip) == {name \in namelist(zip) : ~EndsWithTok(name, "/")}

\* WheelFile.has_directory(path)
has_directory(zip, path) ==
    LET p == IF EndsWithTok(path, "/") THEN path ELSE path \o <<"/">> IN
    IF p = <<"/">> THEN TRUE
    ELSE \E name \in namelist(zip) : StartsWith(name, p)

\* WheelFile.has_file(path)
has_file(zip, path) == path \in namelist(zip) /\ ~zi_is_dir(path)

\* get_path_type with the test for a file put first.
get_path_type_file_first(zip, path) ==
    IF has_file(zip, path) THEN "FILE"
    ELSE IF has_directory(zip, path) THEN "DIRECTORY"
    ELSE "NoSuchPathError"

\* WheelFile.get_path_type(path): a PathType, or "NoSuchPathError" raised.
get_path_type(zip, path) ==
    IF has_directory(zip, path) THEN "DIRECTORY"
    ELSE IF has_file(zip, path) THEN "FILE"
    ELSE "NoSuchPathError"

\* WheelFile.get_file_size(path): <<exception or "none", size>>.
get_file_size(zip, path) ==
    IF path \notin namelist(zip) THEN <<"NoSuchPathError", 0>>
    ELSE IF zi_is_dir(path) THEN <<"NotFileError", 0>>
    ELSE <<"none", zip[path].size>>

\* The hex digest of a content under an algorithm.
Hash(algorithm, content) ==
    IF algorithm = <<"sha512">>
    THEN (IF content = "c1" THEN <<"H1">> ELSE <<"H2">>)
    ELSE (IF content = "c1" THEN <<"h1">> ELSE <<"h2">>)

\* FileProvider.get_file_digest(path, algorithm), through WheelFile.open:
\* <<exception or "none", hex digest>>.
get_file_digest(zip, path, algorithm) ==
    IF path \notin namelist(zip) THEN <<"NoSuchPathError", EmptyStr>>
    ELSE IF zi_is_dir(path) THEN <<"NotFileError", EmptyStr>>
    ELSE <<"none", Hash(algorithm, zip[path].content)>>

(* --------------------------- verification ------------------------------ *)

\* What verify_file produces: the exception raised, if any, and the calls
\* it made to get_file_size and get_file_digest.
Outcome(e, called) == [err |-> e, calls |-> called]

\* verify_file for a path that is not in the RECORD, without the exemption
\* of directories.
verify_unrecorded_strict(zip, spath) ==
    LET ptype == get_path_type(zip, spath) IN
    IF is_signature_file(spath) THEN Outcome(NoErr, {})
    ELSE IF ptype = "NoSuchPathError" THEN Outcome(NoErr, {})
    ELSE Outcome(Err("UnrecordedPathError", spath, <<>>), {})

\* verify_file for a path that is not in the RECORD.
verify_unrecorded(zip, spath) ==
    LET ptype == get_path_type(zip, spath) IN
    IF is_signature_file(spath) THEN Outcome(NoErr, {})
    ELSE IF ptype = "NoSuchPathError" THEN Outcome(NoErr, {})
    ELSE IF ptype # "DIRECTORY"
    THEN Outcome(Err("UnrecordedPathError", spath, <<>>), {})
    ELSE Outcome(NoErr, {})

\* verify_file for a path the RECORD holds as a directory.
verify_directory_bare(zip, spath) ==
    LET ptype == get_path_type(zip, spath) IN
    IF ptype = "NoSuchPathError"
    THEN Outcome(Err("MissingPathError", spath, <<>>), {})
    ELSE IF ptype # "DIRECTORY"
    THEN Outcome(Err("PathTypeMismatchError", spath, <<"DIRECTORY", ptype>>), {})
    ELSE Outcome(NoErr, {})

verify_directory(zip, spath) ==
    LET ptype == get_path_type(zip, spath) IN
    IF ptype = "NoSuchPathError"
    THEN Outcome(Err("MissingPathError", spath \o <<"/">>, <<>>), {})
    ELSE IF ptype # "DIRECTORY"
    THEN Outcome(Err("PathTypeMismatchError", spath, <<"DIRECTORY", ptype>>), {})
    ELSE Outcome(NoErr, {})

\* The digest comparison of verify_file, made only when `digest` is true.
check_digest_always(zip, spath, fd, digest) ==
    LET dg == get_file_digest(zip, spath, fd.algorithm) IN
    IF dg[1] # "none" THEN Outcome(Err(dg[1], spath, <<>>), {<<"digest", spath>>})
    ELSE IF hex_digest(fd) # dg[2]
    THEN Outcome(Err("DigestMismatchError", spath,
                     <<fd.algorithm, hex_digest(fd), dg[2]>>),
                 {<<"digest", spath>>})
    ELSE Outcome(NoErr, {<<"digest", spath>>})

check_digest(zip, spath, fd, digest) ==
    LET dg == get_file_digest(zip, spath, fd.algorithm) IN
    IF ~digest THEN Outcome(NoErr, {})
    ELSE IF dg[1] # "none"
    THEN Outcome(Err(dg[1], spath, <<>>), {<<"digest", spath>>})
    ELSE IF hex_digest(fd) # dg[2]
    THEN Outcome(Err("DigestMismatchError", spath,
                     <<fd.algorithm, hex_digest(fd), dg[2]>>),
                 {<<"digest", spath>>})
    ELSE Outcome(NoErr, {<<"digest", spath>>})

\* The size comparison of verify_file, followed by the digest comparison.
check_contents_digest_first(zip, spath, fd, digest) ==
    LET sz == get_file_size(zip, spath)
        cd == check_digest(zip, spath, fd, digest)
    IN  IF cd.err.kind # "none" THEN cd
        ELSE IF sz[1] # "none"
        THEN Outcome(Err(sz[1], spath, <<>>), cd.calls \cup {<<"size", spath>>})
        ELSE IF fd.size # sz[2]
        THEN Outcome(Err("SizeMismatchError", spath, <<fd.size, sz[2]>>),
                     cd.calls \cup {<<"size", spath>>})
        ELSE Outcome(NoErr, cd.calls \cup {<<"size", spath>>})

check_contents(zip, spath, fd, digest) ==
    LET sz == get_file_size(zip, spath)
        cd == check_digest(zip, spath, fd, digest)
    IN  IF sz[1] # "none" THEN Outcome(Err(sz[1], spath, <<>>), {<<"size", spath>>})
        ELSE IF fd.size # sz[2]
        THEN Outcome(Err("SizeMismatchError", spath, <<fd.size, sz[2]>>),
                     {<<"size", spath>>})
        ELSE Outcome(cd.err, {<<"size", spath>>} \cup cd.calls)

\* verify_regular without the test of filedata_is_optional.
verify_regular_null_strict(zip, spath, filedata, digest) ==
    LET ptype == get_path_type(zip, spath) IN
    IF ptype = "NoSuchPathError"
    THEN Outcome(Err("MissingPathError", spath, <<>>), {})
    ELSE IF ptype # "FILE"
    THEN Outcome(Err("PathTypeMismatchError", spath, <<"FILE", ptype>>), {})
    ELSE IF filedata = None
    THEN Outcome(Err("NullEntryError", spath, <<>>), {})
    ELSE check_contents(zip, spath, filedata[1], digest)

\* verify_file for a path the RECORD holds as a file.
verify_regular(zip, spath, filedata, digest) ==
    LET ptype == get_path_type(zip, spath) IN
    IF ptype = "NoSuchPathError"
    THEN Outcome(Err("MissingPathError", spath, <<>>), {})
    ELSE IF ptype # "FILE"
    THEN Outcome(Err("PathTypeMismatchError", spath, <<"FILE", ptype>>), {})
    ELSE IF filedata = None
    THEN IF ~filedata_is_optional(spath)
         THEN Outcome(Err("NullEntryError", spath, <<>>), {})
         ELSE Outcome(NoErr, {})
    ELSE check_contents(zip, spath, filedata[1], digest)

\* FileProvider.verify_file(path, digest) for the RecordPath at `rpath`; a
\* node outside the tree does not exist.
verify_file(zip, tree, rpath, digest) ==
    LET spath == Join(rpath) IN
    IF rpath \notin DOMAIN tree THEN verify_unrecorded(zip, spath)
    ELSE IF tree[rpath].isdir THEN verify_directory(zip, spath)
    ELSE verify_regular(zip, spath, tree[rpath].filedata, digest)

\* Record.__iter__: the i-th key in the order of the dict.
record_iter_reversed(d, i) == d[Len(d) + 1 - i].key

record_iter(d, i) == d[i].key

\* files.discard(path)
discard_nothing(fs, path) == fs

discard(fs, path) == fs \ {path}

(* ------------------------------ inputs --------------------------------- *)

\* Paths a row can name: well-formed ones and malformed ones.
GoodPathFields ==
    {<<"a">>, <<"a", "/", "b">>, <<"a", "/">>, <<"D", "/", "R">>}

BadPathFields ==
    {EmptyStr, <<"/", "a">>, <<"a", "/", "/", "b">>, <<"/", "/", "a">>,
     <<".", "/", "a">>, <<"a", "/", ".", ".">>, <<"/", ".">>}

PathFields == GoodPathFields \cup BadPathFields

\* Algorithm-and-digest fields: empty, well-formed and malformed.
GoodAlgFields ==
    {<<"sha256", "=", "d1">>, <<"sha256", "=", "d2">>, <<"sha256", "=", "d1x">>,
     <<"SHA256", "=", "d1">>, <<"sha512", "=", "e1">>}

BadAlgFields ==
    {<<"sha256">>, <<"md5", "=", "d1">>, <<"MD5", "=", "bad">>,
     <<"sha1", "=", "sh">>, <<"foo", "=", "d1">>, <<"foo", "=", "bad">>,
     <<"sha256", "=", "sh">>, <<"sha256", "=", "bad">>, <<"sha512", "=", "d1">>}

AlgFields == {EmptyStr} \cup GoodAlgFields \cup BadAlgFields

\* Size fields: empty, well-formed and malformed.
GoodSizeFields == {<<"0">>, <<"1">>}

BadSizeFields == {<<"-", "1">>, <<"x">>}

SizeFields == {EmptyStr} \cup GoodSizeFields \cup BadSizeFields

\* Rows that do not have three fields.
OddRows ==
    {<<>>, <<EmptyStr>>, <<<<"a">>>>, <<<<"/", "a">>, <<"md5", "=", "d1">>>>,
     <<<<"a">>, <<"sha256", "=", "d1">>, <<"0">>, <<"x">>>>}

\* The well-formed rows with a digest and a size that the model reads.
DataRows ==
    {<<<<"a">>, g, z>> : g \in GoodAlgFields, z \in {<<"0">>}}
    \cup {<<<<"a">>, <<"sha256", "=", "d1">>, <<"1">>>>}
    \cup {<<p, <<"sha256", "=", "d1">>, <<"0">>>> : p \in GoodPathFields}

\* The rows Record.load can be given: every row with a malformed field, every
\* row with only one of digest and size, every row with neither, the rows of
\* DataRows and the rows of OddRows.
Rows ==
    OddRows \cup
    {r \in {<<p, g, z>> : p \in PathFields, g \in AlgFields, z \in SizeFields} :
        \/ r[1] \in BadPathFields
        \/ r[2] \in BadAlgFields
        \/ r[3] \in BadSizeFields
        \/ r[2] = EmptyStr
        \/ r[3] = EmptyStr
        \/ r \in DataRows}

\* The rows of the manifests that verification starts from.
ManifestRows ==
    {<<p, g[1], g[2]>> :
        p \in {<<"a">>, <<"a", "/", "b">>},
        g \in {<<<<"sha256", "=", "d1">>, <<"0">>>>,
               <<<<"sha256", "=", "d2">>, <<"1">>>>}}
    \cup {<<<<"a", "/">>, EmptyStr, EmptyStr>>,
          <<<<"D", "/", "R">>, EmptyStr, EmptyStr>>}

RECURSIVE SeqsUpTo(_, _)
SeqsUpTo(S, n) ==
    IF n = 0 THEN {<<>>}
    ELSE LET shorter == SeqsUpTo(S, n - 1) IN
         shorter \cup {Append(q, x) : q \in shorter, x \in S}

Manifests == SeqsUpTo(ManifestRows, MaxManifest)

\* Record.load(fp) over the rows of a file: the loop of load_row, stopped
\* by the first exception.
RECURSIVE load(_, _, _)
load(d, tree, rows) ==
    IF Len(rows) = 0 THEN [data |-> d, tree |-> tree, err |-> NoErr]
    ELSE LET r == load_row(d, tree, rows[1]) IN
         IF r.err.kind # "none" THEN r
         ELSE load(r.data, r.tree, Tail(rows))

\* The names a caller passes to get_subpath: declared and undeclared names,
\* the two special names, and names that are empty or hold a slash.
ProbeNames ==
    {<<"a">>, <<"b">>, <<"D">>, <<"R">>, Dot, DotDot, EmptyStr, <<"a", "/", "b">>,
     <<".", ".", "/", "a">>}

(* --------------- the objects of a tree (RecordPath) -------------------- *)

\* The RecordPath objects behind a tree: the object of generation 0 at each
\* parts is the node that Record.load made, and attr.evolve of an object
\* makes the object of the next generation at the same parts.
ObjId(gen, parts) == [gen |-> gen, parts |-> parts]

CopyId(id) == ObjId(id.gen + 1, id.parts)

\* The attributes of a RecordPath: _parent is None or the parent object,
\* _children is None or the dict from names to objects.
RecordPathObj(parts, filedata, parent_id, children, exists) ==
    [parts |-> parts, filedata |-> filedata, parent |-> parent_id,
     children |-> children, exists |-> exists]

\* The objects that Record.load leaves for a tree.
ObjectsOf(tree) ==
    [id \in {ObjId(0, p) : p \in DOMAIN tree} |->
        RecordPathObj(
            id.parts,
            tree[id.parts].filedata,
            IF id.parts = RootParts THEN None ELSE Some(ObjId(0, parent(id.parts))),
            IF tree[id.parts].isdir
            THEN Some([n \in {q[Len(q)] : q \in iterdir(tree, id.parts)} |->
                          ObjId(0, Append(id.parts, n))])
            ELSE None,
            tree[id.parts].exists)]

\* RecordPath.is_dir() of an object.
obj_is_dir(heap, id) == heap[id].exists /\ heap[id].children # None

\* RecordPath._adopt() without the copies: the children themselves are
\* given the new parent.
adopt_in_place(heap, id) ==
    LET kids == heap[id].children[1]
        moved == [i \in DOMAIN heap |->
                    IF \E n \in DOMAIN kids : kids[n] = i
                    THEN [heap[i] EXCEPT !.parent = Some(id)]
                    ELSE heap[i]]
    IN  moved

\* RecordPath._adopt(): the children are replaced by copies whose parent
\* is self, and the copies that are directories adopt in turn.
RECURSIVE adopt(_, _)
RECURSIVE AdoptEach(_, _)
adopt(heap, id) ==
    LET kids == heap[id].children[1]
        copies == [n \in DOMAIN kids |-> CopyId(kids[n])]
        made == [c \in {copies[n] : n \in DOMAIN kids} |->
                    [heap[ObjId(c.gen - 1, c.parts)] EXCEPT !.parent = Some(id)]]
        h1 == made @@ [heap EXCEPT ![id].children = Some(copies)]
    IN  AdoptEach(h1, {c \in DOMAIN made : obj_is_dir(h1, c)})

\* for v in self._children.values(): if v.is_dir(): v._adopt()
AdoptEach(heap, ids) ==
    IF ids = {} THEN heap
    ELSE LET i == CHOOSE i \in ids : TRUE
         IN  AdoptEach(adopt(heap, i), ids \ {i})

\* RecordPath._prune(names) on a directory object: the objects afterwards
\* and the new directory.
obj_prune(heap, id, names) ==
    LET kids == heap[id].children[1]
        pruned == [n \in DOMAIN kids \ names |-> kids[n]]
        newdir == CopyId(id)
        h1 == (newdir :> [heap[id] EXCEPT !.children = Some(pruned)]) @@ heap
    IN  [heap |-> adopt(h1, newdir), root |-> newdir]

\* The objects reached from an object through _children.
RECURSIVE Reach(_, _)
Reach(heap, id) ==
    IF heap[id].children = None THEN {id}
    ELSE {id} \cup UNION {Reach(heap, heap[id].children[1][n]) :
                             n \in DOMAIN heap[id].children[1]}

\* The tree that the objects below a directory object make.
TreeOf(heap, root) ==
    [p \in {heap[i].parts : i \in Reach(heap, root)} |->
        LET i == CHOOSE i \in Reach(heap, root) : heap[i].parts = p
        IN  [isdir |-> heap[i].children # None, filedata |-> heap[i].filedata,
             exists |-> heap[i].exists]]

(* ------------- the mapping of filetrees (FiletreeMapping) -------------- *)

\* A FiletreeID: a member of the enum Tree, which is not a str, with its
\* value, or a str.
TreeKey(v) == [enum |-> TRUE, value |-> <<v>>]

StrKey(s) == [enum |-> FALSE, value |-> s]

Tree == {TreeKey(v) : v \in {"ALL", "ROOT", "purelib", "platlib", "dist-info", "data"}}

\* DATA_DIR_RGX.fullmatch(name): "T" is {project}-{version}.data
is_data_dir(name) ==
    /\ Len(name) >= 1
    /\ name[Len(name)] = "T"
    /\ \A i \in 1..(Len(name) - 1) : name[i] \in {"a", "b", "0", "1", "x", "."}
    /\ name[1] # "."

\* Record.data_dirname: the top-level directory that find_special_dir takes
\* for the data directory, None when there is none (more than one is a
\* SpecialDirError).
data_dir_candidates(tree) ==
    {p[1] : p \in {q \in iterdir(tree, RootParts) :
                       NodeIsDir(tree, q) /\ is_data_dir(q[1])}}

data_dirname(tree) ==
    IF data_dir_candidates(tree) = {} THEN None
    ELSE Some(CHOOSE n \in data_dir_candidates(tree) : TRUE)

\* A TreePath as FiletreeMapping.__getitem__ makes it; tree is the tree its
\* _record_path is a node of.
TreePath(parts, tid, tree, depth) ==
    [parts |-> parts, tree_id |-> tid, tree |-> tree, root_depth |-> depth]

\* FiletreeMapping._resolve_key(key): the key, or KeyError.
resolve_key(rip, key) ==
    IF key = TreeKey("ROOT")
    THEN [key |-> IF rip THEN TreeKey("purelib") ELSE TreeKey("platlib"), err |-> NoErr]
    ELSE IF \/ (~key.enum /\ key.value = EmptyStr)
            \/ (~key.enum /\ "/" \in Range(key.value))
            \/ (~key.enum /\ key.value \in {Dot, DotDot})
    THEN [key |-> key, err |-> Err("KeyError", EmptyStr, <<>>)]
    ELSE [key |-> key, err |-> NoErr]

\* FiletreeMapping._get_root(tree_id) for every key, of a Record with one
\* dist-info directory and at most one data directory: the root (a node
\* and the tree it is in), or None.
mapping_get_root(tree, rip, tid) ==
    LET dd == data_dirname(tree)
        di == CHOOSE n \in dist_info_candidates(tree) : TRUE
    IN  IF tid = TreeKey("ALL") THEN Some(TreeResult(tree, RootParts, NoErr))
        ELSE IF (tid = TreeKey("purelib") /\ rip) \/ (tid = TreeKey("platlib") /\ ~rip)
        THEN Some(TreeResult(prune(tree, RootParts, {di} \cup Range(dd)), RootParts, NoErr))
        ELSE IF tid = TreeKey("dist-info") THEN Some(truediv(tree, RootParts, di))
        ELSE IF tid = TreeKey("data")
        THEN IF dd = None THEN None ELSE Some(truediv(tree, RootParts, dd[1]))
        ELSE IF dd = None THEN None
        ELSE LET r == JoinSteps(tree, RootParts, <<dd[1], tid.value>>)
             IN  IF NodeIsDir(r.tree, r.node) THEN Some(r) ELSE None

\* FiletreeMapping.__getitem__(key): the cache after it, the TreePath
\* returned (None with KeyError).
getitem(tree, rip, c, key) ==
    LET rk == resolve_key(rip, key) IN
    IF rk.err.kind # "none" THEN [cache |-> c, path |-> None, err |-> rk.err]
    ELSE IF rk.key \in DOMAIN c THEN [cache |-> c, path |-> Some(c[rk.key]), err |-> NoErr]
    ELSE LET root == mapping_get_root(tree, rip, rk.key) IN
         IF root = None
         THEN [cache |-> c, path |-> None, err |-> Err("KeyError", EmptyStr, <<>>)]
         ELSE LET tp == TreePath(root[1].node, rk.key, root[1].tree,
                                 Len(root[1].node))
              IN  [cache |-> (rk.key :> tp) @@ c, path |-> Some(tp), err |-> NoErr]

\* FiletreeMapping.__iter__: the set of the keys it yields.
mapping_iter(tree, rip) ==
    LET all == {resolve_key(rip, k).key : k \in Tree}
        dd == data_dirname(tree)
    IN  IF dd = None THEN all
        ELSE LET discarded ==
                     IF rip /\ ~NodeExists(tree, <<dd[1], <<"platlib">>>>)
                     THEN {TreeKey("platlib")}
                     ELSE IF ~rip /\ ~NodeExists(tree, <<dd[1], <<"purelib">>>>)
                     THEN {TreeKey("purelib")}
                     ELSE {}
             IN  (all \ discarded)
                 \cup {resolve_key(rip, StrKey(p[Len(p)])).key :
                           p \in {q \in iterdir(tree, <<dd[1]>>) : NodeIsDir(tree, q)}}

\* FiletreeMapping.__len__
mapping_len(tree, rip) == Cardinality(mapping_iter(tree, rip))

NoCache == [k \in {} |-> TRUE]

NoLookup == [key |-> None, path |-> None]

\* The rows of the RECORDs of the wheels whose filetrees a caller asks for:
\* RECORD itself and a module, and a choice of entries below the data
\* directory "T".
MappingRow(path) == <<path, <<"sha256", "=", "d1">>, <<"0">>>>

WheelBase == <<<<<<"D", "/", "R">>, EmptyStr, EmptyStr>>, MappingRow(<<"a">>)>>

WheelExtras ==
    {<<>>} \cup
    {ps \o ss : ps \in {<<>>, <<MappingRow(<<"T", "/", "purelib", "/", "a">>)>>},
                ss \in {<<>>, <<MappingRow(<<"T", "/", "scripts", "/", "a">>)>>,
                        <<MappingRow(<<"T", "/", "platlib", "/", "a">>)>>,
                        <<MappingRow(<<"T", "/", "platlib">>)>>,
                        <<<<<<"T", "/">>, EmptyStr, EmptyStr>>>>}}

Wheels == {WheelBase \o x : x \in WheelExtras}

\* The keys a caller asks the mapping for.
MappingKeys ==
    Tree \cup {StrKey(s) : s \in {<<"purelib">>, <<"platlib">>, <<"scripts">>,
                                  <<"data">>, <<"scripts", "/">>, <<"/", "scripts">>,
                                  EmptyStr, Dot, DotDot}}

\* The paths a caller verifies one by one: recorded or not, in the archive
\* or not, a signature file.
VerifyPaths == {<<"a">>, <<"b">>, <<"D">>, <<"D", "/", "J">>}

\* The names of the path objects whose suffix, suffixes and stem a caller
\* reads: the texts of up to MaxName characters, dots among them.
MaxName == 4

RECURSIVE TextsUpTo(_, _)
TextsUpTo(S, n) ==
    IF n = 0 THEN {<<>>}
    ELSE LET shorter == TextsUpTo(S, n - 1) IN
         shorter \cup {Append(q, x) : q \in shorter, x \in S}

Names == TextsUpTo({"a", "b", "."}, MaxName) \ {EmptyStr}

\* The RECORDs of the wheels whose filetrees a caller walks.
WalkManifests ==
    {<<<<<<"D", "/", "R">>, EmptyStr, EmptyStr>>, r>> :
        r \in {<<<<"a">>, <<"sha256", "=", "d1">>, <<"0">>>>,
               <<<<"a", "/", "b">>, <<"sha256", "=", "d1">>, <<"0">>>>,
               <<<<"a", "/">>, EmptyStr, EmptyStr>>}}

\* The paths a caller joins to a path of a filetree, the names it gives
\* with_name and the suffixes it gives with_suffix.
WalkPaths ==
    {<<"a", "/", "b">>, <<"R">>, DotDot, <<".", ".", "/", ".", ".", "/", "a">>,
     <<"/", "a">>}

NewNames == {<<"b">>, DotDot, EmptyStr, <<".", ".", "/", "a">>}

NewSuffixes == {<<".", "x">>, EmptyStr, Dot, <<"x">>}

\* The filetrees a caller opens: Tree.ALL, Tree.PURELIB and Tree.DIST_INFO.
TreeKeys == {"ALL", "purelib", "dist-info"}

\* The contents a file of an archive can have.
Contents == {ZipEntry(n, c) : n \in {0, 1}, c \in {"c1", "c2"}}

EmptyZip == <<>>

\* No entry, or one entry of the name with one of the contents.
OptEntry(name, contents) == {EmptyZip} \cup {name :> e : e \in contents}

\* The archives verification is run against.
Zips ==
    {za @@ zb @@ zr @@ zs @@ zd :
        za \in OptEntry(<<"a">>, Contents),
        zb \in OptEntry(<<"a", "/", "b">>, Contents),
        zr \in OptEntry(<<"D", "/", "R">>, {ZipEntry(0, "c1")}),
        zs \in OptEntry(<<"D", "/", "J">>, {ZipEntry(0, "c1")})
               \cup OptEntry(<<"D", "/", "P">>, {ZipEntry(0, "c1")}),
        zd \in OptEntry(<<"a", "/">>, {ZipEntry(0, "c1")})}

\* The archives of the runs that start by loading the RECORD.
LoadZips ==
    {(<<"a">> :> ZipEntry(0, "c1")) @@ (<<"D", "/", "R">> :> ZipEntry(0, "c1")),
     (<<"a", "/", "b">> :> ZipEntry(0, "c1")) @@ (<<"D", "/", "J">> :> ZipEntry(0, "c1"))}

(* ------------------- wheel handles (WheelFile, classes.py) -------------- *)

\* The attributes of a WheelFile that hold its handles: fp and zipfile are
\* "none" (never opened), "open" or "closed".
WheelHandles(fp, zip, closed, fp_from_user) ==
    [fp |-> fp, zip |-> zip, closed |-> closed, fp_from_user |-> fp_from_user]

NoWheel == WheelHandles("none", "none", FALSE, FALSE)

\* What from_file is given: a path or a file object of the caller
\* (from_user), the wheel's filename ("good", "bad", or "none" for a file
\* object without a name), whether the file is a zip archive, whether it
\* holds exactly one matching *.dist-info directory, the validity of its
\* WHEEL, METADATA and entry_points.txt ("ok", "no WHEEL", "no METADATA"),
\* the rows of its RECORD (None when the file is missing), and whether
\* reading it raises an error that is not a WheelValidationError.
WheelSource(from_user, filename, is_zip, special_dir, dist_info, record, unexpected) ==
    [from_user |-> from_user, filename |-> filename, is_zip |-> is_zip,
     special_dir |-> special_dir, dist_info |-> dist_info, record |-> record,
     unexpected |-> unexpected]

NoSource == WheelSource(FALSE, "none", FALSE, FALSE, "ok", None, FALSE)

\* The first exception of a sequence of steps that run in order, NoErr when
\* none of them raises.
first_error(errs) ==
    IF \A i \in DOMAIN errs : errs[i].kind = "none" THEN NoErr
    ELSE errs[CHOOSE i \in DOMAIN errs :
                /\ errs[i].kind # "none"
                /\ \A j \in 1..(i - 1) : errs[j].kind = "none"]

\* BackedDistInfo.validate(): dist_info_dirname, then wheel_info, record,
\* metadata and entry_points, then data_dirname (no row of the model names a
\* *.data directory, so that last step finds none).  The first error raised.
validate(src) ==
    first_error(<<
        IF src.special_dir THEN NoErr
        ELSE Err("SpecialDirError", EmptyStr, <<>>),
        IF src.dist_info # "no WHEEL" THEN NoErr
        ELSE Err("MissingDistInfoFileError", <<"WHEEL">>, <<>>),
        IF src.record = None
        THEN Err("MissingDistInfoFileError", <<"RECORD">>, <<>>)
        ELSE load(<<>>, MkRoot, src.record[1]).err,
        IF src.dist_info # "no METADATA" THEN NoErr
        ELSE Err("MissingDistInfoFileError", <<"METADATA">>, <<>>) >>)

\* WheelFile.close().
close(w) ==
    IF ~w.closed
    THEN [w EXCEPT !.zip = "closed",
                   !.fp = IF w.fp # "none" /\ ~w.fp_from_user THEN "closed" ELSE @,
                   !.closed = TRUE]
    ELSE w

\* WheelFile.from_file(file, strict): the handles it leaves and the error
\* it raises, NoErr when it returns a WheelFile.  The file is open before
\* parse_wheel_filename is called, and the ZipFile before validate().
from_file(src, strict) ==
    [wheel |-> WheelHandles("open",
                            IF src.filename = "bad" \/ ~src.is_zip
                            THEN "none" ELSE "open",
                            FALSE, src.from_user),
     err |-> first_error(<<
        IF src.filename # "bad" THEN NoErr
        ELSE Err("InvalidFilenameError", EmptyStr, <<>>),
        IF src.is_zip THEN NoErr
        ELSE Err("BadZipFile", EmptyStr, <<>>),
        IF strict THEN validate(src) ELSE NoErr >>)]

\* WheelFile.from_path(path, strict): the wheel at the path, opened by the
\* library.
from_path(src, strict) == from_file(src, strict)

\* inspect(obj): every WheelValidationError is caught and reported in the
\* result; any other error leaves the function.
inspect(src) ==
    IF src.unexpected THEN Err("UnexpectedError", EmptyStr, <<>>) ELSE NoErr

\* The RECORD files of the wheels that are opened: none, an empty one, and
\* the ones of one row, well-formed or not.
RunRecords ==
    {None} \cup {Some(<<>>)} \cup {Some(<<r>>) : r \in ManifestRows \cup OddRows}

\* The wheels that are opened: by path or from a file object of the caller.
WheelSources ==
    {WheelSource(uf[1], uf[2], z, s, di, r, x) :
        uf \in {<<FALSE, "good">>, <<FALSE, "bad">>,
                <<TRUE, "good">>, <<TRUE, "bad">>, <<TRUE, "none">>},
        z \in BOOLEAN, s \in BOOLEAN, di \in {"ok", "no WHEEL", "no METADATA"},
        r \in RunRecords, x \in BOOLEAN}

(* ------------------------------- state --------------------------------- *)

VARIABLES
    pc,        \* "load", "failed", "loaded", "verify", "ok" or "raised"; after
               \* verify_file on one path: "file ok" or "file raised"; of a
               \* run that opens a wheel: "run", "entered", "ended", "closed"
    data,      \* Record.data
    filetree,  \* Record.filetree
    fields,    \* the row Record.load read last
    nrows,     \* the number of rows read
    err,       \* the exception raised, NoErr when none
    zipfile,   \* WheelFile.zipfile
    digest,    \* the digest argument of verify_record
    files,     \* the local `files` of verify_record
    idx,       \* the position of verify_record's loop in the manifest
    calls,     \* the get_file_size / get_file_digest calls verification made
    cursor,    \* the parts of the path object a caller walking the tree holds
    tree_id,   \* its class: "RECORD" for a RecordPath of Record.filetree,
               \* else the tree_id of the TreePath
    wheel,     \* the handles of the WheelFile: fp, zipfile, closed
    source,    \* the file the WheelFile is opened from
    root_is_purelib,  \* FiletreeMapping.root_is_purelib
    cache,     \* FiletreeMapping._cache: resolved key -> TreePath
    keys,      \* the keys the caller's last iteration of the mapping gave,
               \* {} before it
    lookup,    \* the caller's last filetrees[key]: the key and the TreePath
               \* returned, None when KeyError was raised
    derived    \* the suffix, suffixes and stem the caller has read from the
               \* path object, None before it did

vars ==
    <<pc, data, filetree, fields, nrows, err, zipfile, digest, files, idx, calls,
      cursor, tree_id, wheel, source, root_is_purelib, cache, keys, lookup,
      derived>>

walkVars == <<cursor, tree_id>>

runVars == <<wheel, source>>

mapVars == <<root_is_purelib, cache, keys, lookup>>

loadVars == <<data, filetree, fields, nrows>>

verifyVars == <<digest, files, idx, calls>>

\* A run that starts by loading the RECORD of its archive.
Init ==
    /\ pc = "load"
    /\ data = <<>>
    /\ filetree = MkRoot
    /\ fields = <<>>
    /\ nrows = 0
    /\ err = NoErr
    /\ zipfile \in LoadZips
    /\ digest = TRUE
    /\ files = {}
    /\ idx = 0
    /\ calls = {}
    /\ cursor = RootParts
    /\ tree_id = "RECORD"
    /\ wheel = NoWheel
    /\ source = NoSource
    /\ root_is_purelib = TRUE
    /\ cache = NoCache
    /\ keys = {}
    /\ lookup = NoLookup
    /\ derived = None

\* A run whose RECORD has been loaded from one of the manifests.
InitVerify ==
    /\ \E m \in Manifests :
        LET r == load(<<>>, MkRoot, m) IN
        /\ r.err.kind = "none"
        /\ data = r.data
        /\ filetree = r.tree
        /\ nrows = Len(m)
    /\ pc = "loaded"
    /\ fields = <<>>
    /\ err = NoErr
    /\ zipfile \in Zips
    /\ digest = TRUE
    /\ files = {}
    /\ idx = 0
    /\ calls = {}
    /\ cursor = RootParts
    /\ tree_id = "RECORD"
    /\ wheel = NoWheel
    /\ source = NoSource
    /\ root_is_purelib = TRUE
    /\ cache = NoCache
    /\ keys = {}
    /\ lookup = NoLookup
    /\ derived = None

(* ------------------------------ actions -------------------------------- *)

\* Record.load reads the next row.
LoadRow(row) ==
    /\ pc = "load"
    /\ nrows < MaxRows
    /\ LET r == load_row(data, filetree, row) IN
        /\ data' = r.data
        /\ filetree' = r.tree
        /\ err' = r.err
        /\ pc' = IF r.err.kind = "none" THEN "load" ELSE "failed"
    /\ fields' = row
    /\ nrows' = nrows + 1
    /\ UNCHANGED <<zipfile, verifyVars, walkVars, runVars, mapVars, derived>>

\* Record.load reaches the end of the file and returns the Record.
LoadReturn ==
    /\ pc = "load"
    /\ pc' = "loaded"
    /\ UNCHANGED <<loadVars, err, zipfile, verifyVars, walkVars, runVars, mapVars, derived>>

\* BackedDistInfo.verify(digest): verify_record is entered with the loaded
\* Record and lists the files of the archive.
StartVerify(dg) ==
    /\ pc = "loaded"
    /\ pc' = "verify"
    /\ digest' = dg
    /\ files' = list_files(zipfile)
    /\ idx' = 1
    /\ calls' = {}
    /\ UNCHANGED <<loadVars, err, zipfile, walkVars, runVars, mapVars, derived>>

\* One turn of the loop of verify_record over the Record's keys.
VerifyEntry ==
    /\ pc = "verify"
    /\ idx <= Len(data)
    /\ LET path == record_iter(data, idx)
           rp == truediv(filetree, RootParts, path)
           o == IF rp.err.kind # "none" THEN Outcome(rp.err, {})
                ELSE verify_file(zipfile, filetree, rp.node, digest)
       IN  /\ err' = o.err
           /\ calls' = calls \cup o.calls
           /\ pc' = IF o.err.kind = "none" THEN "verify" ELSE "raised"
           /\ files' = IF o.err.kind = "none" THEN discard(files, path) ELSE files
           /\ filetree' = rp.tree
    /\ idx' = idx + 1
    /\ UNCHANGED <<data, fields, nrows, zipfile, digest, walkVars, runVars, mapVars, derived>>

\* The caller verifies one path, verify_file(record.filetree / path, digest),
\* and keeps the path object.
VerifyFile(path) ==
    /\ pc = "loaded"
    /\ \E r \in {truediv(filetree, RootParts, path)} :
       \E o \in {IF r.err.kind # "none" THEN Outcome(r.err, {})
                  ELSE verify_file(zipfile, r.tree, r.node, digest)} :
        /\ err' = o.err
        /\ calls' = o.calls
        /\ pc' = IF o.err.kind = "none" THEN "file ok" ELSE "file raised"
        /\ filetree' = r.tree
        /\ cursor' = r.node
    /\ UNCHANGED <<data, fields, nrows, zipfile, digest, files, idx, tree_id, runVars, mapVars, derived>>

\* The loop of verify_record over the files left: the first one met that is
\* no signature file is reported; a set is walked in no fixed order.
CheckUnrecorded ==
    /\ pc = "verify"
    /\ idx > Len(data)
    /\ \/ /\ \A path \in files : is_signature_file(path)
          /\ pc' = "ok"
          /\ err' = NoErr
       \/ \E path \in files :
          /\ ~is_signature_file(path)
          /\ pc' = "raised"
          /\ err' = Err("UnrecordedPathError", path, <<>>)
    /\ UNCHANGED <<loadVars, zipfile, verifyVars, walkVars, runVars, mapVars, derived>>

Next ==
    \/ \E row \in Rows : LoadRow(row)
    \/ LoadReturn
    \/ \E dg \in BOOLEAN : StartVerify(dg)
    \/ VerifyEntry
    \/ CheckUnrecorded

\* A run that opens a wheel and inspects it inside a with statement.
InitRun ==
    /\ pc = "run"
    /\ data = <<>>
    /\ filetree = MkRoot
    /\ fields = <<>>
    /\ nrows = 0
    /\ err = NoErr
    /\ zipfile = EmptyZip
    /\ digest = TRUE
    /\ files = {}
    /\ idx = 0
    /\ calls = {}
    /\ cursor = RootParts
    /\ tree_id = "RECORD"
    /\ wheel = NoWheel
    /\ source \in WheelSources
    /\ root_is_purelib = TRUE
    /\ cache = NoCache
    /\ keys = {}
    /\ lookup = NoLookup
    /\ derived = None

\* The with statement evaluates its context expression, WheelFile.from_file
\* of a file object or WheelFile.from_path of a path: an exception ends the
\* run before the block is entered.
OpenWheel(strict) ==
    /\ pc = "run"
    /\ \E r \in {IF source.from_user THEN from_file(source, strict)
                  ELSE from_path(source, strict)} :
        /\ wheel' = r.wheel
        /\ err' = r.err
        /\ pc' = IF r.err.kind = "none" THEN "entered" ELSE "ended"
    /\ UNCHANGED <<loadVars, zipfile, verifyVars, walkVars, source, mapVars, derived>>

\* The block of the with statement, inspect(wf), and then
\* WheelFile.__exit__, which runs whether or not the block raised.
WithBlock ==
    /\ pc = "entered"
    /\ err' = inspect(source)
    /\ wheel' = close(wheel)
    /\ pc' = "ended"
    /\ UNCHANGED <<loadVars, zipfile, verifyVars, walkVars, source, mapVars, derived>>

\* The caller closes the WheelFile once more after the run.
CloseAgain ==
    /\ pc = "ended"
    /\ wheel.closed
    /\ wheel' = close(wheel)
    /\ pc' = "closed"
    /\ UNCHANGED <<loadVars, err, zipfile, verifyVars, walkVars, source, mapVars, derived>>

NextRun ==
    \/ \E strict \in BOOLEAN : OpenWheel(strict)
    \/ WithBlock
    \/ CloseAgain

\* A run whose RECORD has been loaded and whose tree a caller walks from
\* the root, Record.filetree.
InitProbe ==
    /\ \E m \in Manifests :
        LET r == load(<<>>, MkRoot, m) IN
        /\ r.err.kind = "none"
        /\ data = r.data
        /\ filetree = r.tree
        /\ nrows = Len(m)
    /\ pc = "loaded"
    /\ fields = <<>>
    /\ err = NoErr
    /\ zipfile = EmptyZip
    /\ digest = TRUE
    /\ files = {}
    /\ idx = 0
    /\ calls = {}
    /\ cursor = RootParts
    /\ tree_id = "RECORD"
    /\ wheel = NoWheel
    /\ source = NoSource
    /\ root_is_purelib = TRUE
    /\ cache = NoCache
    /\ keys = {}
    /\ lookup = NoLookup
    /\ derived = None

\* What a step of the walk leaves: the tree of the Record is the tree
\* walked unless the path object is of the pruned copy.
Walked(r) ==
    /\ r.err.kind = "none" => Len(r.node) <= MaxDepth
    /\ filetree' = IF tree_id = "purelib" THEN filetree ELSE r.tree
    /\ err' = r.err
    /\ cursor' = IF r.err.kind = "none" THEN r.node ELSE cursor
    /\ UNCHANGED <<pc, data, fields, nrows, zipfile, verifyVars, tree_id, runVars, mapVars, derived>>

\* The caller takes cursor.get_subpath(name); an exception leaves it with
\* the path it had.
GetSubpath(nm) ==
    /\ pc = "loaded"
    /\ Walked(path_get_subpath(record_tree(filetree, tree_id), cursor, tree_id, nm))

\* The caller takes cursor / path (Path.__truediv__).
JoinPath(path) ==
    /\ pc = "loaded"
    /\ Walked(path_truediv(record_tree(filetree, tree_id), cursor, tree_id, path))

\* The caller starts again from Record.filetree.
FromRoot ==
    /\ pc = "loaded"
    /\ walkVars # <<RootParts, "RECORD">>
    /\ cursor' = RootParts
    /\ tree_id' = "RECORD"
    /\ UNCHANGED <<pc, data, filetree, fields, nrows, err, zipfile, verifyVars, runVars, mapVars, derived>>

\* The caller takes cursor.parent.
Parent ==
    /\ pc = "loaded"
    /\ cursor' = path_parent(cursor, tree_id)
    /\ cursor' # cursor
    /\ UNCHANGED <<pc, data, filetree, fields, nrows, err, zipfile, verifyVars, tree_id, runVars, mapVars, derived>>

\* The caller takes filetrees[key] (FiletreeMapping.__getitem__), the root of
\* a filetree of a wheel whose root is purelib.
OpenTree(key) ==
    /\ pc = "loaded"
    /\ LET r == get_root(filetree, key) IN
        /\ err' = r.err
        /\ cursor' = IF r.err.kind = "none" THEN r.node ELSE cursor
        /\ tree_id' = IF r.err.kind = "none" THEN key ELSE tree_id
        /\ filetree' = r.tree
    /\ UNCHANGED <<pc, data, fields, nrows, zipfile, verifyVars, runVars, mapVars, derived>>

\* The caller lists cursor.iterdir() and takes one of the paths listed; an
\* exception leaves it with the path it had.
IterDir ==
    /\ pc = "loaded"
    /\ \E r \in {path_iterdir(record_tree(filetree, tree_id), cursor)} :
        /\ err' = r.err
        /\ IF r.err.kind = "none"
           THEN \E n \in r.nodes : cursor' = n
           ELSE cursor' = cursor
    /\ UNCHANGED <<pc, data, filetree, fields, nrows, zipfile, verifyVars, tree_id, runVars, mapVars, derived>>

\* A wheel whose RECORD has been loaded and whose mapping of filetrees,
\* WheelFile.filetrees, a caller is about to use.
InitMapping ==
    /\ \E m \in Wheels :
        LET r == load(<<>>, MkRoot, m) IN
        /\ r.err.kind = "none"
        /\ data = r.data
        /\ filetree = r.tree
        /\ nrows = Len(m)
    /\ pc = "loaded"
    /\ fields = <<>>
    /\ err = NoErr
    /\ zipfile = EmptyZip
    /\ digest = TRUE
    /\ files = {}
    /\ idx = 0
    /\ calls = {}
    /\ cursor = RootParts
    /\ tree_id = "RECORD"
    /\ wheel = NoWheel
    /\ source = NoSource
    /\ root_is_purelib \in BOOLEAN
    /\ cache = NoCache
    /\ keys = {}
    /\ lookup = NoLookup
    /\ derived = None

\* The caller takes filetrees[key].
GetItem(key) ==
    /\ pc = "loaded"
    /\ \E r \in {getitem(filetree, root_is_purelib, cache, key)} :
        /\ cache' = r.cache
        /\ lookup' = [key |-> Some(key), path |-> r.path]
        /\ err' = r.err
    /\ UNCHANGED <<pc, loadVars, zipfile, verifyVars, walkVars, runVars, root_is_purelib, keys, derived>>

\* The caller iterates over the mapping: set(filetrees).
Iterate ==
    /\ pc = "loaded"
    /\ keys' = mapping_iter(filetree, root_is_purelib)
    /\ UNCHANGED <<pc, loadVars, err, zipfile, verifyVars, walkVars, runVars, root_is_purelib, cache, lookup, derived>>

NextMapping ==
    \/ \E key \in MappingKeys : GetItem(key)
    \/ Iterate

\* A wheel whose RECORD has been loaded and whose filetrees a caller walks,
\* a wheel whose root is purelib.
InitWalk ==
    /\ \E m \in WalkManifests :
        LET r == load(<<>>, MkRoot, m) IN
        /\ r.err.kind = "none"
        /\ data = r.data
        /\ filetree = r.tree
        /\ nrows = Len(m)
    /\ pc = "loaded"
    /\ fields = <<>>
    /\ err = NoErr
    /\ zipfile = EmptyZip
    /\ digest = TRUE
    /\ files = {}
    /\ idx = 0
    /\ calls = {}
    /\ cursor = RootParts
    /\ tree_id = "RECORD"
    /\ wheel = NoWheel
    /\ source = NoSource
    /\ root_is_purelib = TRUE
    /\ cache = NoCache
    /\ keys = {}
    /\ lookup = NoLookup
    /\ derived = None

\* A caller holds the root of Record.filetree, whose name is empty, or a
\* path object of one name.
InitName ==
    /\ pc = "loaded"
    /\ data = <<>>
    /\ filetree = MkRoot
    /\ nrows = 0
    /\ fields = <<>>
    /\ err = NoErr
    /\ zipfile = EmptyZip
    /\ digest = TRUE
    /\ files = {}
    /\ idx = 0
    /\ calls = {}
    /\ cursor \in {RootParts} \cup {<<n>> : n \in Names}
    /\ tree_id = "RECORD"
    /\ wheel = NoWheel
    /\ source = NoSource
    /\ root_is_purelib = TRUE
    /\ cache = NoCache
    /\ keys = {}
    /\ lookup = NoLookup
    /\ derived = None

\* The caller reads cursor.suffix, cursor.suffixes and cursor.stem.
ReadSuffixes ==
    /\ pc = "loaded"
    /\ derived = None
    /\ derived' = Some([suffix |-> suffix(path_name(cursor, tree_id)),
                        suffixes |-> suffixes(path_name(cursor, tree_id)),
                        stem |-> stem(path_name(cursor, tree_id))])
    /\ UNCHANGED <<pc, loadVars, err, zipfile, verifyVars, walkVars, runVars, mapVars>>

NextName == ReadSuffixes

\* The caller takes cursor.with_name(name).
WithName(nm) ==
    /\ pc = "loaded"
    /\ Walked(with_name(record_tree(filetree, tree_id), cursor, tree_id, nm))

\* The caller takes cursor.with_suffix(suffix).
WithSuffix(sfx) ==
    /\ pc = "loaded"
    /\ Walked(with_suffix(record_tree(filetree, tree_id), cursor, tree_id, sfx))

NextProbe ==
    \/ \E name \in ProbeNames : GetSubpath(name)
    \/ \E path \in PathFields : JoinPath(path)
    \/ FromRoot

NextTree ==
    \/ \E nm \in ProbeNames : GetSubpath(nm)
    \/ \E path \in PathFields : JoinPath(path)
    \/ FromRoot
    \/ Parent
    \/ \E key \in TreeKeys : OpenTree(key)
    \/ IterDir

\* The steps that lead from the root of a filetree to its other paths.
NextWalk ==
    \/ \E key \in TreeKeys : OpenTree(key)
    \/ \E path \in WalkPaths : JoinPath(path)
    \/ Parent
    \/ IterDir
    \/ \E nm \in NewNames : WithName(nm)
    \/ \E sfx \in NewSuffixes : WithSuffix(sfx)

NextVerify ==
    \/ \E dg \in BOOLEAN : StartVerify(dg)
    \/ VerifyEntry
    \/ CheckUnrecorded
    \/ \E path \in VerifyPaths : VerifyFile(path)

Spec == Init /\ [][Next]_vars

SpecVerify == InitVerify /\ [][NextVerify]_vars

SpecProbe == InitProbe /\ [][NextProbe]_vars

SpecTree == InitProbe /\ [][NextTree]_vars

SpecRun == InitRun /\ [][NextRun]_vars

SpecMapping == InitMapping /\ [][NextMapping]_vars

SpecWalk == InitWalk /\ [][NextWalk]_vars

SpecName == InitName /\ [][NextName]_vars

(* ------------------- what the manifest and archive say ----------------- *)

\* A key of the Record that declares a directory.
IsDirKey(key) == Len(key) > 0 /\ key[Len(key)] = "/"

\* The path a key names, without the directory marker.
KeyPath(key) == IF IsDirKey(key) THEN SubSeq(key, 1, Len(key) - 1) ELSE key

\* The manifest's own entry: RECORD in the dist-info directory.
IsSelfEntry(key) == key = <<"D", "/", "R">>

\* The two reserved signature files of the dist-info directory.
IsReservedSignature(path) == path \in {<<"D", "/", "J">>, <<"D", "/", "P">>}

FileKeys == {data[i].key : i \in {j \in 1..Len(data) : ~IsDirKey(data[j].key)}}

\* The names of the archive's entries that are files.
BackingFiles == {name \in DOMAIN zipfile : name[Len(name)] # "/"}

\* The bytes of a recorded digest, in hex.
RecordedHex(fd) == [k \in 1..Len(fd.digest) |-> TokHex(fd.digest[k])]

\* How the archive classifies the path of the i-th entry.
BackingType(i) == get_path_type(zipfile, KeyPath(data[i].key))

\* The node of the tree that the i-th key names, and its kind.
KeyNode(i) == split_path(data[i].key)

DeclaredDir(i) == filetree[KeyNode(i)].isdir

DeclaredFile(i) == ~filetree[KeyNode(i)].isdir

SizeEqual(i) == zipfile[data[i].key].size = data[i].value[1].size

DigestEqual(i) ==
    Hash(data[i].value[1].algorithm, zipfile[data[i].key].content)
        = RecordedHex(data[i].value[1])

\* The i-th entry and the archive agree: a directory key names a directory, a
\* file key names a file of the recorded size and digest, and a file key
\* without a FileRecord is the manifest's own entry.
EntryAgrees(i) ==
    IF IsDirKey(data[i].key) THEN BackingType(i) = "DIRECTORY"
    ELSE /\ BackingType(i) = "FILE"
         /\ IF data[i].value = None THEN IsSelfEntry(data[i].key)
            ELSE SizeEqual(i) /\ DigestEqual(i)

AgreeExactly ==
    /\ BackingFiles = FileKeys
    /\ \A i \in 1..Len(data) : EntryAgrees(i)

\* verify_record has returned or raised.
Done == pc \in {"ok", "raised"}

\* verify_record raised this exception while examining the i-th entry, and
\* examined nothing after it.
RaisedAt(i, kind, path, info) ==
    /\ pc = "raised"
    /\ idx = i + 1
    /\ err.kind = kind
    /\ err.path = path
    /\ err.info = info

(* ------------------------------ claims --------------------------------- *)

\* C1: when the manifest and the archive agree exactly (same files, every
\* declared directory a directory, every FileRecord's size and digest those of
\* the file, the only entry without a FileRecord the manifest's own),
\* verify_record never raises and, once finished, has returned; this for
\* either value of the digest flag.
C1_AgreementVerifies ==
    AgreeExactly => pc # "raised"

C1_Witness ==
    /\ AgreeExactly
    /\ pc = "ok"
    /\ digest
    /\ \E i \in 1..Len(data) : IsDirKey(data[i].key)
    /\ \E i \in 1..Len(data) : <<"digest", data[i].key>> \in calls

\* The i-th entry is a file whose content differs from the recorded digest
\* while its size is the recorded one.
DigestOnlyDiffers(i) ==
    /\ ~IsDirKey(data[i].key)
    /\ data[i].value # None
    /\ BackingType(i) = "FILE"
    /\ SizeEqual(i)
    /\ ~DigestEqual(i)

\* C2: when one declared file differs from its recorded digest only (size
\* equal, every other entry agreeing, no undeclared file), verify_record
\* raises DigestMismatchError for that path with digest=True and returns with
\* digest=False; with digest=False get_file_digest is never called.
C2_DigestFlag ==
    /\ \A i \in 1..Len(data) :
        ( /\ Done
          /\ BackingFiles = FileKeys
          /\ DigestOnlyDiffers(i)
          /\ \A j \in 1..Len(data) : j # i => EntryAgrees(j) )
        => IF digest
           THEN RaisedAt(i, "DigestMismatchError", data[i].key,
                         <<data[i].value[1].algorithm, RecordedHex(data[i].value[1]),
                           Hash(data[i].value[1].algorithm, zipfile[data[i].key].content)>>)
           ELSE pc = "ok"
    /\ ~digest => \A c \in calls : c[1] # "digest"

C2_Witness ==
    /\ pc = "raised"
    /\ digest
    /\ err.kind = "DigestMismatchError"
    /\ BackingFiles = FileKeys
    /\ \E i \in 1..Len(data) :
        /\ DigestOnlyDiffers(i)
        /\ \A j \in 1..Len(data) : j # i => EntryAgrees(j)
    /\ Len(data) >= 2

\* C3: when every manifest entry agrees with the archive, verify_record
\* returns if every file of the archive that is no manifest path is one of
\* the two reserved signature files, and otherwise raises
\* UnrecordedPathError for a file of the archive that is neither.
C3_UnrecordedFiles ==
    (Done /\ \A i \in 1..Len(data) : EntryAgrees(i))
    => LET extra == {f \in BackingFiles \ FileKeys : ~IsReservedSignature(f)} IN
       IF extra = {} THEN pc = "ok"
       ELSE /\ pc = "raised"
            /\ err.kind = "UnrecordedPathError"
            /\ err.path \in extra

C3_Witness ==
    /\ pc = "raised"
    /\ err.kind = "UnrecordedPathError"
    /\ Len(data) >= 1
    /\ \A i \in 1..Len(data) : EntryAgrees(i)
    /\ \E f \in BackingFiles \ FileKeys : IsReservedSignature(f)

\* The i-th entry is a declared file with a FileRecord that the archive holds
\* as a file of another size.
SizeDiffers(i) ==
    /\ DeclaredFile(i)
    /\ data[i].value # None
    /\ BackingType(i) = "FILE"
    /\ ~SizeEqual(i)

\* C4: verifying a declared file that carries a FileRecord and is a file of
\* another size in the archive raises SizeMismatchError with the path, the
\* recorded size and the actual size, whatever the digest flag, and without
\* computing the digest; so a file wrong in size and digest is reported as a
\* size mismatch.
C4_SizeBeforeDigest ==
    \A i \in 1..Len(data) :
        (idx > i /\ SizeDiffers(i))
        => /\ RaisedAt(i, "SizeMismatchError", data[i].key,
                       <<data[i].value[1].size, zipfile[data[i].key].size>>)
           /\ <<"digest", data[i].key>> \notin calls

C4_Witness ==
    /\ pc = "raised"
    /\ digest
    /\ err.kind = "SizeMismatchError"
    /\ err.info = <<0, 1>>
    /\ \E i \in 1..Len(data) : idx = i + 1 /\ SizeDiffers(i) /\ ~DigestEqual(i)

\* No size or digest was asked of the archive for the path.
NoContentCall(path) == \A c \in calls : c[2] # path

\* C5: verifying an entry whose declared type disagrees with the archive
\* raises MissingPathError(path) for a declared file that is absent,
\* PathTypeMismatchError(FILE, DIRECTORY) for a declared file that is a
\* directory, PathTypeMismatchError(DIRECTORY, FILE) for a declared directory
\* that is a file, and MissingPathError(path + "/") for a declared directory
\* that is absent; no size or digest is compared.
C5_TypeDiscrepancies ==
    \A i \in 1..Len(data) :
        LET p == KeyPath(data[i].key)
            t == BackingType(i)
        IN  idx > i =>
            /\ (DeclaredFile(i) /\ t = "NoSuchPathError")
               => RaisedAt(i, "MissingPathError", p, <<>>) /\ NoContentCall(p)
            /\ (DeclaredFile(i) /\ t = "DIRECTORY")
               => RaisedAt(i, "PathTypeMismatchError", p, <<"FILE", "DIRECTORY">>)
                  /\ NoContentCall(p)
            /\ (DeclaredDir(i) /\ t = "FILE")
               => RaisedAt(i, "PathTypeMismatchError", p, <<"DIRECTORY", "FILE">>)
                  /\ NoContentCall(p)
            /\ (DeclaredDir(i) /\ t = "NoSuchPathError")
               => RaisedAt(i, "MissingPathError", p \o <<"/">>, <<>>)
                  /\ NoContentCall(p)

C5_Witness ==
    /\ pc = "raised"
    /\ err.kind = "MissingPathError"
    /\ err.path = <<"a", "/">>
    /\ \E i \in 1..Len(data) :
        idx = i + 1 /\ DeclaredDir(i) /\ BackingType(i) = "NoSuchPathError"

\* The discrepancy between the i-th entry and the archive, "none" when they
\* agree: presence, then type, then size, then (when digests are checked)
\* digest.
Discrepancy(i) ==
    LET t == BackingType(i) IN
    IF t = "NoSuchPathError" THEN "MissingPathError"
    ELSE IF DeclaredDir(i)
    THEN (IF t # "DIRECTORY" THEN "PathTypeMismatchError" ELSE "none")
    ELSE IF t # "FILE" THEN "PathTypeMismatchError"
    ELSE IF data[i].value = None THEN "none"
    ELSE IF ~SizeEqual(i) THEN "SizeMismatchError"
    ELSE IF digest /\ ~DigestEqual(i) THEN "DigestMismatchError"
    ELSE "none"

Disagreeing == {i \in 1..Len(data) : Discrepancy(i) # "none"}

First(S) == CHOOSE i \in S : \A j \in S : i <= j

\* C6: verify_record is fail-fast.  When some entry disagrees with the
\* archive, it raises the discrepancy of the first such entry in row order
\* and examines no later entry; UnrecordedPathError is raised only when every
\* entry has been examined and none disagrees.
C6_FailFast ==
    Done =>
        IF Disagreeing # {}
        THEN /\ pc = "raised"
             /\ idx = First(Disagreeing) + 1
             /\ err.kind = Discrepancy(First(Disagreeing))
             /\ KeyPath(err.path) = KeyPath(data[First(Disagreeing)].key)
             /\ \A c \in calls : \E j \in 1..First(Disagreeing) : c[2] = data[j].key
        ELSE /\ idx = Len(data) + 1
             /\ pc = "raised" => err.kind = "UnrecordedPathError"

C6_Witness ==
    /\ pc = "raised"
    /\ Len(data) >= 2
    /\ Discrepancy(1) = "none"
    /\ Discrepancy(2) # "none"
    /\ idx = 3
    /\ \E f \in BackingFiles \ FileKeys : ~IsReservedSignature(f)

\* Record.load passes the row to _insert: the row is not blank, parse_row
\* accepts it and load does not reject it as a null entry.
Inserts(row, e) ==
    /\ Len(row) # 0
    /\ parse_row(row).err.kind = "none"
    /\ e.kind # "NullEntryError"

\* The (path, record) pair that parse_row makes of the row.
RowPath(row) == parse_row(row).path

RowData(row) == parse_row(row).data

\* The step reads a row and inserts its pair.
InsertStep == pc = "load" /\ nrows' = nrows + 1 /\ Inserts(fields', err')

\* C7: inserting a (path, record) pair into a Record whose mapping already
\* holds that path with an equal record raises no error and leaves the
\* mapping (keys, values and their order) and every node of the tree
\* unchanged, whatever was inserted before.
C7_ReinsertIsNoOp ==
    [][ ( /\ InsertStep
          /\ HasKey(data, RowPath(fields'))
          /\ Lookup(data, RowPath(fields')) = RowData(fields') )
        => /\ pc' = "load"
           /\ err'.kind = "none"
           /\ data' = data
           /\ filetree' = filetree ]_vars

\* The last row read was inserted a second time: its key is the first of the
\* mapping, and a key inserted for the first time is the last.
C7_Witness ==
    /\ pc = "load"
    /\ Len(fields) = 3
    /\ Len(data) >= 2
    /\ data[1].key = fields[1]
    /\ data[1].value # None
    /\ data[1].value = RowData(fields)

\* C7 as stated: inserting a pair into a Record whose tree already holds a
\* node at that path with an equal record raises no error and leaves the
\* mapping and the tree unchanged.
C7_AsStated ==
    [][ ( /\ InsertStep
          /\ split_path(RowPath(fields')) \in DOMAIN filetree
          /\ filetree[split_path(RowPath(fields'))].filedata = RowData(fields') )
        => /\ pc' = "load"
           /\ err'.kind = "none"
           /\ data' = data
           /\ filetree' = filetree ]_vars

\* C8: inserting (path, record2) into a Record whose mapping holds the path
\* with a record1 that differs from record2 (in size, algorithm or digest
\* text, or by one of them being null) raises RecordConflictError naming the
\* path, whatever else was inserted before.
C8_ConflictOnDifferentRecord ==
    [][ ( /\ InsertStep
          /\ HasKey(data, RowPath(fields'))
          /\ Lookup(data, RowPath(fields')) # RowData(fields') )
        => /\ pc' = "failed"
           /\ err'.kind = "RecordConflictError"
           /\ err'.path = RowPath(fields')
           /\ data' = data ]_vars

C8_Witness ==
    /\ pc = "failed"
    /\ err.kind = "RecordConflictError"
    /\ err.path = fields[1]
    /\ Len(data) >= 2
    /\ HasKey(data, fields[1])
    /\ Lookup(data, fields[1]) # None
    /\ RowData(fields) # None
    /\ Lookup(data, fields[1])[1].size = RowData(fields)[1].size
    /\ hex_digest(Lookup(data, fields[1])[1]) = hex_digest(RowData(fields)[1])

\* The first rule of the row format that a row with fields violates, 0 when
\* it violates none: 1 field count, 2 path shape, 3 algorithm and digest,
\* 4 size, 5 digest and size together, 6 null entry.
FirstViolated(row) ==
    IF Len(row) # 3 THEN 1
    ELSE IF row[1] \in BadPathFields THEN 2
    ELSE IF row[2] \in BadAlgFields THEN 3
    ELSE IF row[3] \in BadSizeFields THEN 4
    ELSE IF (row[2] = EmptyStr) # (row[3] = EmptyStr) THEN 5
    ELSE IF row[2] = EmptyStr /\ ~(IsSelfEntry(row[1]) \/ IsDirKey(row[1])) THEN 6
    ELSE 0

\* The error kinds of each rule.
RuleKinds(k) ==
    CASE k = 1 -> {"RecordEntryLengthError"}
      [] k = 2 -> {"EmptyPathError", "NonNormalizedPathError", "AbsolutePathError"}
      [] k = 3 -> {"RecordAlgDigestError", "UnknownAlgorithmError",
                   "WeakAlgorithmError", "RecordDigestError"}
      [] k = 4 -> {"RecordSizeError"}
      [] k = 5 -> {"EmptyDigestError", "EmptySizeError"}
      [] k = 6 -> {"NullEntryError"}

NamedAlgorithm(field) == Lower(SubSeq(field, 1, 1))

NamesAlgorithm(row) == Len(row) >= 2 /\ Len(row[2]) >= 2 /\ row[2][2] = "="

LaterRuleKinds ==
    {"RecordAlgDigestError", "RecordDigestError", "RecordSizeError",
     "EmptyDigestError", "EmptySizeError", "NullEntryError", "RecordConflictError"}

IsNullRow(row) ==
    /\ Len(row) = 3
    /\ row[1] \in GoodPathFields
    /\ row[2] = EmptyStr
    /\ row[3] = EmptyStr

Declared(parts) ==
    \/ Len(parts) = 0
    \/ \E i \in 1..Len(data) :
        /\ Len(parts) <= Len(split_path(data[i].key))
        /\ SubSeq(split_path(data[i].key), 1, Len(parts)) = parts

\* C12: probing never changes the Record.  Every get_subpath or join on a
\* loaded tree, probes of undeclared names and of children of non-existent
\* paths included, leaves the mapping and the iterdir() of every existing
\* directory as they were, and a node returned for an undeclared path
\* reports exists() false, is_file() false and is_dir() false.
C12_ProbingIsPure ==
    [][ pc = "loaded"
        => /\ data' = data
           /\ \A dir \in DOMAIN filetree :
                NodeIsDir(filetree, dir)
                => /\ NodeIsDir(filetree', dir)
                   /\ iterdir(filetree', dir) = iterdir(filetree, dir)
           /\ {dir \in DOMAIN filetree' : NodeIsDir(filetree', dir)}
                = {dir \in DOMAIN filetree : NodeIsDir(filetree, dir)}
           /\ (err'.kind = "none" /\ ~Declared(cursor'))
              => /\ ~NodeExists(filetree', cursor')
                 /\ ~NodeIsFile(filetree', cursor')
                 /\ ~NodeIsDir(filetree', cursor') ]_vars

\* The caller holds a child of a child of a path that the manifest does not
\* declare.
C12_Witness ==
    /\ pc = "loaded"
    /\ Len(data) >= 2
    /\ Len(cursor) = 3
    /\ err.kind = "none"
    /\ ~Declared(SubSeq(cursor, 1, 1))

\* The root of the tree that the caller's path object belongs to: the root
\* of Record.filetree, or the root of the filetree opened.
RootOf(id) == IF id = "dist-info" THEN <<<<"D">>>> ELSE <<>>

IsUnder(parts, root) ==
    Len(parts) >= Len(root) /\ SubSeq(parts, 1, Len(root)) = root

\* C13: for every path p that is not a root, RecordPath or TreePath,
\* existing or not, p.parent / p.name is p (same parts, same filedata); the
\* parent of the root of Record.filetree and of the root of every filetree
\* is that root, and the parent of a path under a root is under that root.
C13_ParentAndName ==
    pc = "loaded" =>
        LET tree == record_tree(filetree, tree_id)
            up == path_parent(cursor, tree_id)
            back == path_truediv(tree, up, tree_id, path_name(cursor, tree_id))
        IN  /\ cursor = RootOf(tree_id) => up = cursor
            /\ cursor # RootOf(tree_id)
               => /\ back.err.kind = "none"
                  /\ back.node = cursor
                  /\ back.tree = tree
            /\ IsUnder(cursor, RootOf(tree_id)) => IsUnder(up, RootOf(tree_id))

\* The caller holds a TreePath of the dist-info tree, two names below its
\* root, that does not exist.
C13_Witness ==
    /\ pc = "loaded"
    /\ tree_id = "dist-info"
    /\ Len(cursor) = 3
    /\ IsUnder(cursor, RootOf(tree_id))
    /\ ~NodeExists(filetree, cursor)

\* The decimal text of a size.
SizeText(n) == IF n = 0 THEN <<"0">> ELSE <<"1">>

\* The row that states a (path, record) pair of the mapping: the path,
\* algorithm=digest or nothing, the size or nothing.
RowOf(entry) ==
    IF entry.value = None THEN <<entry.key, EmptyStr, EmptyStr>>
    ELSE <<entry.key,
           entry.value[1].algorithm \o <<"=">> \o entry.value[1].digest,
           SizeText(entry.value[1].size)>>

RowsOf(d) == [i \in 1..Len(d) |-> RowOf(d[i])]

\* C14: for every manifest that Record.load accepts, writing each (path,
\* record) pair of the mapping back as a row and loading those rows raises
\* nothing and gives the same mapping: the same keys, each with an equal
\* FileData or null.
C14_RoundTrip ==
    pc \in {"load", "loaded"} =>
        LET again == load(<<>>, MkRoot, RowsOf(data)) IN
        /\ again.err.kind = "none"
        /\ again.data = data

\* The mapping holds two keys, the last of them read from a row that spells
\* the algorithm in capitals.
C14_Witness ==
    /\ pc = "loaded"
    /\ Len(data) >= 2
    /\ Len(fields) = 3
    /\ fields[2] = <<"SHA256", "=", "d1">>
    /\ data[Len(data)].key = fields[1]
    /\ data[Len(data)].value # None
    /\ \E i \in 1..Len(data) : data[i].value = None
(* ---------------------------------------------------------------------- *)
\* C15: every run that opens a wheel releases its handle on every exit path:
\* once the run has ended, by normal completion, by a validation or parse
\* failure (one raised by strict validation while the WheelFile is
\* constructed included) or by an unexpected error, the zip archive and the
\* file object the library opened are closed.
C15_HandleReleased ==
    pc \in {"ended", "closed"} =>
        /\ wheel.zip # "open"
        /\ ~wheel.fp_from_user => wheel.fp # "open"
(* ---------------------------------------------------------------------- *)
\* C16: verify_record (and each verify_file it makes) on a Record that
\* Record.load returned raises only verification discrepancies, never a
\* malformed-manifest (RecordError) kind such as NullEntryError.
C16_OnlyDiscrepancies ==
    pc = "raised" =>
        /\ err.kind \in VerificationErrorKinds
        /\ err.kind \notin RecordErrorKinds

\* Verification has passed over a null entry whose file the archive holds
\* and has then raised a discrepancy.
C16_Witness ==
    /\ pc = "raised"
    /\ \E i \in 1..Len(data) :
        /\ i < idx - 1
        /\ data[i].value = None
        /\ ~IsDirKey(data[i].key)
        /\ data[i].key \in DOMAIN zipfile
    /\ err.kind \in VerificationErrorKinds

(* ---------------------------------------------------------------------- *)
\* The paths of the proper ancestors of a path, the root left out.
ProperPrefixes(parts) == {SubSeq(parts, 1, k) : k \in 1..(Len(parts) - 1)}

\* The step ended with load raising RecordConflictError, nothing mapped.
Conflicted == pc' = "failed" /\ err'.kind = "RecordConflictError" /\ data' = data

\* C17: inserting an entry whose path passes through a path already recorded
\* as a File raises RecordConflictError, in either order of arrival: an entry
\* below a File node is rejected, and a file row with a FileRecord for a
\* path that entries already pass through (a Directory node) is rejected.
C17_FilePrefixConflict ==
    [][ InsertStep =>
        LET path == RowPath(fields')
            parts == split_path(path)
        IN  /\ (\E q \in ProperPrefixes(parts) : NodeIsFile(filetree, q))
                    => Conflicted
            /\ ( /\ ~IsDirKey(path)
                 /\ RowData(fields') # None
                 /\ \E i \in 1..Len(data) : parts \in ProperPrefixes(KeyNode(i)) )
                    => Conflicted ]_vars
(* ---------------------------------------------------------------------- *)
\* C18: after any successful sequence of insertions, every key of the mapping
\* that ends in '/' resolves in the tree to a Directory node, and every other
\* key resolves to a File node that holds exactly the mapped FileRecord or
\* null: no path is a file in the mapping and a directory in the tree, or
\* the reverse.
C18_MappingMatchesTree ==
    pc \in {"load", "loaded"} =>
        \A i \in 1..Len(data) :
            IF IsDirKey(data[i].key)
            THEN NodeIsDir(filetree, KeyNode(i))
            ELSE /\ NodeIsFile(filetree, KeyNode(i))
                 /\ filetree[KeyNode(i)].filedata = data[i].value
(* ---------------------------------------------------------------------- *)
\* Record.load reads a row that does not have exactly three fields.
OddRowStep == pc = "load" /\ nrows' = nrows + 1 /\ Len(fields') # 3

\* The step ended with load raising RecordEntryLengthError with the field
\* count of the row and the path given.
LengthRejected(path) ==
    /\ pc' = "failed"
    /\ err'.kind = "RecordEntryLengthError"
    /\ err'.info = <<path, Len(fields')>>

NotNormalized(p) ==
    \/ \E i \in 1..(Len(p) - 1) : p[i] = "/" /\ p[i + 1] = "/"
    \/ \E i \in 1..Len(p) : \E j \in i..Len(p) :
        /\ SubSeq(p, i, j) \in {Dot, DotDot}
        /\ i = 1 \/ p[i - 1] = "/"
        /\ j = Len(p) \/ p[j + 1] = "/"

\* Record.load reads a row of three fields.
FullRowStep == pc = "load" /\ nrows' = nrows + 1 /\ Len(fields') = 3

\* The step ended with load raising the error kind for the path of the row.
PathRejected(kind) ==
    /\ pc' = "failed"
    /\ err'.kind = kind
    /\ kind # "EmptyPathError" => err'.path = fields'[1]

\* C20: every 3-field row with an empty path is rejected with EmptyPathError,
\* every row whose path, relative or absolute, holds '//' or a '.' or '..'
\* component with NonNormalizedPathError, and every row whose path begins
\* with '/' and is normalized otherwise with AbsolutePathError: an absolute
\* path that is also non-normalized is reported as non-normalized.
C20_PathShape ==
    [][ FullRowStep =>
        LET p == fields'[1] IN
        /\ p = EmptyStr => PathRejected("EmptyPathError")
        /\ NotNormalized(p) => PathRejected("NonNormalizedPathError")
        /\ (StartsWithTok(p, "/") /\ ~NotNormalized(p))
                => PathRejected("AbsolutePathError") ]_vars

\* The row for '//a' was rejected as non-normalized after another row was
\* loaded.
C20_Witness ==
    /\ pc = "failed"
    /\ nrows = 2
    /\ Len(data) = 1
    /\ Len(fields) = 3
    /\ fields[1] = <<"/", "/", "a">>
    /\ err.kind = "NonNormalizedPathError"

\* C20 as stated: a path that begins with '/' is reported as absolute
\* whatever else is wrong with it, and only a relative path as non-normalized.
C20_AsStated ==
    [][ FullRowStep =>
        LET p == fields'[1] IN
        /\ p = EmptyStr => PathRejected("EmptyPathError")
        /\ StartsWithTok(p, "/") => PathRejected("AbsolutePathError")
        /\ (~StartsWithTok(p, "/") /\ NotNormalized(p))
                => PathRejected("NonNormalizedPathError") ]_vars
(* ---------------------------------------------------------------------- *)
\* The strings joined onto a path: the path fields of the rows and the two
\* special names.
JoinStrings == PathFields \cup {Dot, DotDot}

\* The non-empty pieces of a string between its slashes.
Components(s) == SelectSeq(Split(s, "/"), LAMBDA q : Len(q) > 0)

\* One child step per component from the path at `cur`: '.' stays, '..'
\* goes to the parent (the root stays at the root), any other name goes one
\* level down; a step taken from a File node fails.
RECURSIVE ChildSteps(_, _, _, _)
ChildSteps(tree, cur, id, comps) ==
    IF Len(comps) = 0 THEN [ok |-> TRUE, node |-> cur]
    ELSE IF NodeIsFile(tree, cur) THEN [ok |-> FALSE, node |-> cur]
    ELSE LET atRoot == Len(cur) = (IF id = "dist-info" THEN 1 ELSE 0)
             nxt == IF comps[1] = Dot THEN cur
                    ELSE IF comps[1] = DotDot
                    THEN (IF atRoot THEN cur ELSE SubSeq(cur, 1, Len(cur) - 1))
                    ELSE Append(cur, comps[1])
         IN  ChildSteps(tree, nxt, id, Tail(comps))

\* The result of cursor / s agrees with the child steps.
JoinAgrees(s) ==
    \E r \in {path_truediv(record_tree(filetree, tree_id), cursor, tree_id, s)} :
        IF StartsWithTok(s, "/") THEN r.err.kind = "ValueError"
        ELSE \E e \in {ChildSteps(record_tree(filetree, tree_id), cursor, tree_id,
                                   Components(s))} :
             IF e.ok THEN r.err.kind = "none" /\ r.node = e.node
             ELSE r.err.kind = "NotDirectoryError"

\* C21: for every path p and string s, p / s raises ValueError when s starts
\* with '/'; otherwise it is the result of one child step per non-empty
\* component of s, where '.' leaves the path unchanged and '..' moves to its
\* parent, and a step taken from a File node, '.' and '..' included, raises
\* NotDirectoryError: p / '.' == p and p / '..' == p.parent for every p that
\* is not a File node.
C21_Join ==
    pc = "loaded" => \A s \in JoinStrings : JoinAgrees(s)

\* A caller holds the TreePath of a directory below the root of the purelib
\* tree, which holds a file.
C21_Witness ==
    /\ pc = "loaded"
    /\ tree_id = "purelib"
    /\ cursor = <<(<<"a">>)>>
    /\ NodeIsDir(filetree, cursor)
    /\ NodeIsFile(filetree, Append(cursor, <<"b">>))

\* C21 as stated: p / '.' == p and p / '..' == p.parent for every p, a File
\* node included.
C21_AsStated ==
    pc = "loaded" =>
        \E r \in {path_truediv(record_tree(filetree, tree_id), cursor, tree_id, Dot)} :
        \E u \in {path_truediv(record_tree(filetree, tree_id), cursor, tree_id, DotDot)} :
            /\ r.err.kind = "none" /\ r.node = cursor
            /\ u.err.kind = "none" /\ u.node = path_parent(cursor, tree_id)
(* ---------------------------------------------------------------------- *)
\* C22: joining a relative path that has at least one non-empty component
\* onto a path that is a File node raises NotDirectoryError, also when the
\* component is '.' or '..', and listing iterdir() of a File node raises
\* NotDirectoryError, for a RecordPath and for a TreePath.
C22_FileIsNoDirectory ==
    (pc = "loaded" /\ NodeIsFile(record_tree(filetree, tree_id), cursor)) =>
        /\ \A s \in JoinStrings :
            (~StartsWithTok(s, "/") /\ Len(Components(s)) > 0) =>
                path_truediv(record_tree(filetree, tree_id), cursor, tree_id, s).err.kind
                    = "NotDirectoryError"
        /\ path_iterdir(record_tree(filetree, tree_id), cursor).err.kind
                = "NotDirectoryError"

\* A caller holds the TreePath of the RECORD file in the dist-info tree.
C22_Witness ==
    /\ pc = "loaded"
    /\ tree_id = "dist-info"
    /\ cursor = <<(<<"D">>), (<<"R">>)>>
    /\ NodeIsFile(filetree, cursor)
(* ---------------------------------------------------------------------- *)
\* The paths classified: the root, recorded and unrecorded names, with and
\* without a trailing slash.
ClassifyPaths ==
    {EmptyStr, <<"a">>, <<"a", "/">>, <<"a", "/", "b">>, <<"b">>, <<"D">>,
     <<"D", "/", "R">>, <<"D", "/">>}

\* Some entry of the archive lies below the path, or the path is the root.
DerivedDirectory(path) ==
    LET p == KeyPath(path) IN
    \/ p = EmptyStr
    \/ \E name \in DOMAIN zipfile :
        /\ Len(name) > Len(p)
        /\ SubSeq(name, 1, Len(p)) = p
        /\ name[Len(p) + 1] = "/"

\* The path is the exact name of an entry that is no directory entry.
ExactFile(path) == path \in DOMAIN zipfile /\ ~IsDirKey(path)

\* C23: classification by the archive applies the derived-directory check
\* before the file check: a path (taken without a trailing '/') classifies
\* as Directory iff it is the archive root or the name of some entry starts
\* with path + '/', also when it is the exact name of a file entry;
\* otherwise as File iff it is an exact non-directory entry; otherwise the
\* path is absent (NoSuchPathError).
C23_Classification ==
    \A path \in ClassifyPaths :
        get_path_type(zipfile, path) =
            IF DerivedDirectory(path) THEN "DIRECTORY"
            ELSE IF ExactFile(path) THEN "FILE"
            ELSE "NoSuchPathError"

\* Verification met the recorded file 'a' in an archive that holds the
\* entries 'a' and 'a/b', and reported it as a directory.
C23_Witness ==
    /\ pc = "raised"
    /\ {<<"a">>, <<"a", "/", "b">>} \subseteq DOMAIN zipfile
    /\ err.kind = "PathTypeMismatchError"
    /\ err.path = <<"a">>
    /\ err.info = <<"FILE", "DIRECTORY">>

\* C23 as stated: the file check comes first, so that an exact file entry
\* classifies as File even when other entries lie below its name.
C23_AsStated ==
    \A path \in ClassifyPaths :
        get_path_type(zipfile, path) =
            IF ExactFile(path) THEN "FILE"
            ELSE IF DerivedDirectory(path) THEN "DIRECTORY"
            ELSE "NoSuchPathError"
(* ---------------------------------------------------------------------- *)
\* The archive holds the path as a directory: a directory entry, or the
\* prefix of the name of an entry.
BackingDirectory(spath) ==
    \E name \in DOMAIN zipfile :
        /\ Len(name) > Len(spath)
        /\ SubSeq(name, 1, Len(spath)) = spath
        /\ name[Len(spath) + 1] = "/"

\* C24: a directory that exists in the backing and has no row in the manifest
\* never makes verification fail: list_files() returns no directories, so
\* verify_record reports no directory as unrecorded, and verify_file on a
\* path that is not in the manifest and that the backing classifies as a
\* directory returns without error.
C24_DirectoriesNeedNoRow ==
    /\ pc = "verify" => \A f \in files : ~IsDirKey(f)
    /\ (pc = "raised" /\ err.kind = "UnrecordedPathError")
            => /\ ~IsDirKey(err.path)
               /\ err.path \in DOMAIN zipfile
    /\ ( /\ pc \in {"file ok", "file raised"}
         /\ ~NodeExists(filetree, cursor)
         /\ BackingDirectory(Join(cursor)) )
            => pc = "file ok" /\ err.kind = "none"

\* verify_file has returned for the dist-info directory, which the archive
\* implies and the manifest does not name, in an archive that also holds a
\* directory entry.
C24_Witness ==
    /\ pc = "file ok"
    /\ cursor = <<(<<"D">>)>>
    /\ ~NodeExists(filetree, cursor)
    /\ <<"D", "/", "R">> \in DOMAIN zipfile
    /\ <<"a", "/">> \in DOMAIN zipfile
(* ---------------------------------------------------------------------- *)
\* filetrees[key] succeeds, from the cache the mapping has.
LookupSucceeds(key) ==
    getitem(filetree, root_is_purelib, cache, key).err.kind = "none"

\* A key that is empty, holds '/', or is '.' or '..'.
MalformedKey(key) ==
    /\ ~key.enum
    /\ key.value = EmptyStr \/ "/" \in Range(key.value) \/ key.value \in {Dot, DotDot}

\* C25: for every FiletreeMapping, the keys yielded by iteration are exactly
\* the resolved keys whose lookup succeeds: every yielded key can be looked
\* up without KeyError, every key whose lookup succeeds resolves to a
\* yielded key, len() is the number of yielded keys; Tree.ROOT gives the
\* cached object of Tree.PURELIB when root-is-purelib and of Tree.PLATLIB
\* otherwise; a key that is empty, holds '/', or is '.' or '..' raises
\* KeyError.
C25_IterationMatchesLookup ==
    /\ keys # {} =>
        /\ \A k \in keys : LookupSucceeds(k)
        /\ \A k \in MappingKeys :
               LookupSucceeds(k) => resolve_key(root_is_purelib, k).key \in keys
        /\ mapping_len(filetree, root_is_purelib) = Cardinality(keys)
    /\ (lookup.key = Some(TreeKey("ROOT")) /\ lookup.path # None) =>
        LET lib == IF root_is_purelib THEN TreeKey("purelib") ELSE TreeKey("platlib")
        IN  /\ lib \in DOMAIN cache
            /\ lookup.path[1] = cache[lib]
            /\ getitem(filetree, root_is_purelib, cache, lib).path = lookup.path
            /\ getitem(filetree, root_is_purelib, cache, lib).cache = cache
    /\ (lookup.key # None /\ MalformedKey(lookup.key[1])) =>
        lookup.path = None /\ err.kind = "KeyError"
(* ---------------------------------------------------------------------- *)
\* The parts of the root R of the filetree that the path object belongs
\* to.
TreeRoot(id) == IF id = "dist-info" THEN <<(<<"D">>)>> ELSE RootParts

\* C26: a TreePath never leaves its filetree: every path reachable from the
\* root R by join, parent, '..', with_name, with_suffix and iterdir steps
\* keeps the tree id and the root depth of R and has parts that extend R's
\* parts; at R, parent and '..' return R, the name is the empty string and
\* relative_parts is empty; for every reachable path relative_parts is its
\* parts with R's parts removed from the front.
C26_StaysInFiletree ==
    (pc = "loaded" /\ tree_id # "RECORD") =>
        /\ IsUnder(cursor, TreeRoot(tree_id))
        /\ root_depth(tree_id) = Len(TreeRoot(tree_id))
        /\ TreeRoot(tree_id) \o relative_parts(cursor, tree_id) = cursor
        /\ cursor = TreeRoot(tree_id) =>
            /\ path_parent(cursor, tree_id) = cursor
            /\ path_truediv(record_tree(filetree, tree_id), cursor, tree_id, DotDot).node
                   = cursor
            /\ path_name(cursor, tree_id) = EmptyStr
            /\ relative_parts(cursor, tree_id) = <<>>

\* The caller has walked from the root of the dist-info tree, by with_name
\* and with_suffix, to the path b.x in it.
C26_Witness ==
    /\ pc = "loaded"
    /\ tree_id = "dist-info"
    /\ cursor = <<(<<"D">>), (<<"b", ".", "x">>)>>
    /\ err.kind = "none"
(* ---------------------------------------------------------------------- *)
\* The key of the root library of the wheel.
RootLib == IF root_is_purelib THEN TreeKey("purelib") ELSE TreeKey("platlib")

\* The names of the dist-info directory and of the data directory.
SpecialDirs(tree) == dist_info_candidates(tree) \cup data_dir_candidates(tree)

\* The objects after the root of the root library was built by _prune.
Pruned == obj_prune(ObjectsOf(filetree), ObjId(0, RootParts), SpecialDirs(filetree))

\* C27: the ROOT (purelib/platlib) filetree is the manifest tree with
\* exactly the top-level dist-info and data directories removed: its root
\* lists every other top-level entry, probing the name of the dist-info or
\* data directory from it gives a path that does not exist, and the parent
\* links inside it lead to the pruned root, not to the original. Building it
\* leaves the original tree unchanged: Tree.ALL and Record.filetree still
\* list the two directories, and every original node keeps its parent and
\* its children.
C27_PrunedRoot ==
    RootLib \in DOMAIN cache =>
        LET root == cache[RootLib]
            objs == Pruned.heap
            new == Pruned.root
        IN  /\ root.tree = TreeOf(objs, new)
            /\ root.parts = objs[new].parts
            /\ iterdir(root.tree, root.parts)
                   = {p \in iterdir(filetree, RootParts) : p[1] \notin SpecialDirs(filetree)}
            /\ \A p \in DOMAIN root.tree :
                   p = RootParts \/ (p[1] \notin SpecialDirs(filetree) /\ root.tree[p] = filetree[p])
            /\ \A p \in DOMAIN filetree :
                   p = RootParts \/ p[1] \in SpecialDirs(filetree) \/ p \in DOMAIN root.tree
            /\ \A n \in SpecialDirs(filetree) :
                   LET probe == truediv(root.tree, root.parts, n)
                   IN  probe.err.kind = "none" /\ ~NodeExists(probe.tree, probe.node)
            /\ \A i \in Reach(objs, new) :
                   /\ i.gen = 1
                   /\ objs[i].children # None =>
                        \A n \in DOMAIN objs[i].children[1] :
                            objs[objs[i].children[1][n]].parent = Some(i)
            /\ \A i \in DOMAIN ObjectsOf(filetree) : objs[i] = ObjectsOf(filetree)[i]
            /\ \A n \in SpecialDirs(filetree) : <<n>> \in iterdir(filetree, RootParts)
            /\ TreeKey("ALL") \in DOMAIN cache =>
                   /\ cache[TreeKey("ALL")].tree = filetree
                   /\ \A n \in SpecialDirs(filetree) :
                          <<n>> \in iterdir(cache[TreeKey("ALL")].tree, RootParts)

\* The caller has looked up Tree.ROOT and Tree.ALL in a wheel that has a
\* data directory with two levels below it.
C27_Witness ==
    /\ RootLib \in DOMAIN cache
    /\ TreeKey("ALL") \in DOMAIN cache
    /\ lookup.key = Some(TreeKey("ROOT"))
    /\ NodeIsFile(filetree, <<(<<"T">>), (<<"scripts">>), (<<"a">>)>>)
    /\ NodeIsFile(cache[RootLib].tree, <<(<<"a">>)>>)
(* ---------------------------------------------------------------------- *)
\* C28: after any successful sequence of insertions, every Directory node
\* carries no FileRecord and every node that carries a FileRecord is a File
\* node with no children; in particular a row whose path ends in '/' never
\* produces a node with both children and a FileRecord.
C28_NodeKinds ==
    pc \in {"load", "loaded"} =>
        \A p \in DOMAIN filetree :
            /\ filetree[p].isdir => filetree[p].filedata = None
            /\ filetree[p].filedata # None =>
                  /\ ~filetree[p].isdir
                  /\ iterdir(filetree, p) = {}
(* ---------------------------------------------------------------------- *)
\* C29: a rejected insertion changes nothing: whenever _insert raises
\* RecordConflictError, the mapping and the whole tree, the intermediate
\* directories of the rejected path included, are what they were before
\* the call.
C29_RejectedInsertChangesNothing ==
    [][ (pc = "load" /\ err'.kind = "RecordConflictError")
            => (data' = data /\ filetree' = filetree) ]_vars

\* A row for D/R with a digest was rejected with RecordConflictError, after
\* a row that made the directory D and the file D/R without one.
C29_Witness ==
    /\ pc = "failed"
    /\ err.kind = "RecordConflictError"
    /\ fields[1] = <<"D", "/", "R">>
    /\ NodeIsDir(filetree, <<(<<"D">>)>>)
    /\ NodeIsFile(filetree, <<(<<"D">>), (<<"R">>)>>)
    /\ Len(data) >= 1
(* ---------------------------------------------------------------------- *)
\* The name is two or more dots and then text without a dot.
DotsThenText(name) ==
    /\ Len(name) >= 3
    /\ name[1] = "." /\ name[2] = "."
    /\ name[Len(name)] # "."
    /\ Len(lstrip_dots(name)) > 0
    /\ "." \notin Range(lstrip_dots(name))

\* C30: for every path name, suffix is the last element of suffixes when
\* suffixes is not empty; when suffixes is empty, suffix is the empty
\* string, unless the name is two or more dots and then text without a dot
\* ('..a'), where suffix is the last dot and that text; stem + suffix is
\* always the name.
C30_SuffixLaws ==
    derived # None =>
        LET name == path_name(cursor, tree_id)
            dv == derived[1]
        IN  /\ dv.suffixes # <<>> => dv.suffix = dv.suffixes[Len(dv.suffixes)]
            /\ (dv.suffixes = <<>> /\ ~DotsThenText(name)) => dv.suffix = EmptyStr
            /\ (dv.suffixes = <<>> /\ DotsThenText(name))
                   => dv.suffix = <<".">> \o lstrip_dots(name)
            /\ dv.stem \o dv.suffix = name

\* The caller has read the suffix, suffixes and stem of '..a'.
C30_Witness ==
    /\ derived # None
    /\ cursor = <<(<<".", ".", "a">>)>>
    /\ derived[1].suffix = <<".", "a">>

\* C30 as stated: suffix is the empty string whenever suffixes is empty.
C30_AsStated ==
    derived # None =>
        /\ derived[1].suffixes # <<>>
               => derived[1].suffix = derived[1].suffixes[Len(derived[1].suffixes)]
        /\ derived[1].suffixes = <<>> => derived[1].suffix = EmptyStr
        /\ derived[1].stem \o derived[1].suffix = path_name(cursor, tree_id)

====
